---- MODULE Spec2Model ----
(***************************************************************************)
(* Model of cap-dab-server's alert-to-broadcast pipeline:                   *)
(*   - CAPServer._index (src/cap/server.py): the HTTP intake handler that   *)
(*     puts parsed CAP events on the scheduler queue;                       *)
(*   - DABWatcher.run / DABWatcher._broadcast_tts (src/dab/watcher.py):     *)
(*     the scheduler loop and its switchover actions;                       *)
(*   - utils.mux_send / utils.replace_streams (src/utils.py): the mux       *)
(*     control channel and the stream replacement the switchover uses;      *)
(*   - DABStream.run / DABStream.join and DABStreams (src/dab/streams.py):  *)
(*     the stream supervisor, its encoder processes and its FIFOs.          *)
(***************************************************************************)
EXTENDS Integers, Sequences, FiniteSets, TLC

(***************************************************************************)
(* Bounds of the model                                                      *)
(***************************************************************************)
\* wall-clock instants are 0..MaxTime
MaxTime == 3
\* number of HTTP POSTs accepted over one behaviour
MaxPosts == 3
\* [general] queuelimit of the checked configuration (the default is 10)
queuelimit == 2
\* number of calls (start, setcfg, stop) made on DABStreams over one behaviour
MaxOps == 3
\* cap of the count of odr-audioenc spawns of one stream thread
MaxSpawns == 5
\* number of utils.mux_send calls made over one behaviour
MaxCalls == 2

(***************************************************************************)
(* Inputs                                                                   *)
(***************************************************************************)
\* <identifier> values of the CAP messages; <sender> and <sent> are fixed
Identifiers == {"A", "B"}
Sender == "rws"
Sent == "t0"

\* (effective, expires) pairs of the posted alerts
Validity == {<<0, 2>>, <<1, 3>>}

\* a reference of a Cancel: {'sender', 'identifier', 'sent'}
Ref(i) == [sender |-> Sender, identifier |-> i, sent |-> Sent]

\* the <references> lists of the posted Cancels
ReferenceLists == {<<Ref("A")>>, <<Ref("B")>>, <<Ref("A"), Ref("B")>>}

\* the dictionary CAPServer._index puts on the queue for an Alert
AlertEvent(i, v) ==
    [msg_type |-> "Alert", identifier |-> i, sender |-> Sender, sent |-> Sent,
     effective |-> v[1], expires |-> v[2]]

\* the dictionary CAPServer._index puts on the queue for a Cancel
CancelEvent(refs) ==
    [msg_type |-> "Cancel", identifier |-> "C", sender |-> Sender, sent |-> Sent,
     references |-> refs]

Events ==
    {AlertEvent(i, v) : i \in Identifiers, v \in Validity}
        \cup {CancelEvent(r) : r \in ReferenceLists}

(***************************************************************************)
(* Configuration                                                            *)
(***************************************************************************)
\* names of the announcements the multiplexer knows
AnnouncementNames == {"alarm", "cap"}

\* DABStreams.streams: (name, thread, config, output), in streams.ini order
Streams ==
    << [name |-> "sub-audio", output_type |-> "dabplus"],
       [name |-> "sub-data", output_type |-> "data"] >>

StreamNames == {Streams[k].name : k \in 1..Len(Streams)}

\* c['output_type'] of the stream named s
OutputType(s) ==
    LET k == CHOOSE j \in 1..Len(Streams) : Streams[j].name = s
    IN  Streams[k].output_type

\* the streams the watcher counts as audio / as data (c['output_type'] != 'data')
AudioStreams == {s \in StreamNames : OutputType(s) /= "data"}
DataStreams == {s \in StreamNames : OutputType(s) = "data"}

\* streams.ini: the sections, in file order
Sections == [k \in 1..Len(Streams) |-> Streams[k].name]

\* streams.ini: the keys of section s the supervisor and replace_streams use
StreamsIni(s) ==
    IF OutputType(s) /= "data"
    THEN [input_type |-> "gst", input |-> "http", dls_enable |-> "yes",
          mot_enable |-> "yes"]
    ELSE [input_type |-> "file", input |-> "data", dls_enable |-> "yes",
          mot_enable |-> "no"]

\* the streamcfg of a stream for which no DABStream was constructed
NoCfg ==
    [input_type |-> "none", input |-> "none", dls_enable |-> "none",
     mot_enable |-> "none"]

\* "while self._running and failcounter < 4"
FailLimit == 4

\* MSCDataGroupBuilder.__init__: self.last_data = None
NoData == <<-1>>

\* no request has been answered yet
NoResponse == [status |-> 0, req |-> <<"None", "None">>, ack |-> -1]

\* the threads that call utils.mux_send on dabsrv.zmqsock: DABWatcher.run
\* (the switchover) and the main thread (the announce() menu)
Callers == {"watcher", "operator"}

\* the commands of the callers: the switchover's and the announce() menu's
Commands(c) ==
    IF c = "watcher"
    THEN {<<"set", "alarm", "active", "1">>, <<"set", "srv", "label", "Alert,Alert">>}
    ELSE {<<"get", "alarm", "active">>, <<"set", "alarm", "active", "0">>}

(***************************************************************************)
(* State                                                                    *)
(***************************************************************************)
VARIABLES
    cfg,                    \* config['warning']: alarm, replace, data, announcement
    now,                    \* the wall clock, datetime.datetime.now()
    q,                      \* the queue.Queue between CAPServer and DABWatcher
    unfinished,             \* q.unfinished_tasks: items put and not yet task_done
    hpc,                    \* position of the HTTP handler thread in _index
    hev,                    \* the event the handler is putting on the queue
    posts,                  \* number of POSTs received so far
    pc,                     \* position of the DABWatcher thread in run()
    running,                \* DABWatcher._running
    announcements,          \* run(): currently active announcements
    future_announcements,   \* run(): future announcements
    changed,                \* run(): the announcement list has been updated
    muxAnn,                 \* multiplexer: 'active' of each announcement
    label,                  \* multiplexer: label/shortlabel/pty of the Alarm service
    input,                  \* supervisor: input of each stream
    ttsStr,                 \* the identifiers the last tts_str was composed from
    issued,                 \* calls the switchover made in the current tick, with results
    logged                  \* warnings the watcher logged in the current tick

VARIABLES
    streamscfg,             \* DABStreams._streamscfg (empty domain: None)
    streams,                \* DABStreams.streams: (stream, thread, cfg, out)
    fifos,                  \* the FIFOs of create_fifo() that exist on disk
    nextfifo,               \* the next mkdtemp()/uuid4() path
    mpc,                    \* position of the caller of DABStreams
    jpc,                    \* position of that caller in DABStream.join
    mstream,                \* the stream that call is working on
    mnewcfg,                \* setcfg: newcfg
    mi,                     \* stop: the index of the loop over self.streams
    ops,                    \* number of calls made on DABStreams so far
    tpc,                    \* position of each DABStream thread in run()
    trunning,               \* DABStream._running
    streamcfg,              \* DABStream.streamcfg
    failcounter,            \* run(): failcounter
    spawns,                 \* odr-audioenc processes the thread has spawned
    audio,                  \* DABStream.audio: the odr-audioenc process
    pad                     \* DABStream.pad: the odr-padenc process

VARIABLES
    cpc,                    \* position of each caller of mux_send
    cmsg,                   \* mux_send: msgs
    cidx,                   \* mux_send: the part of msgs to send next
    cres,                   \* what the caller's last mux_send returned
    sock,                   \* the zmq.REQ socket: ready, partial or awaiting
    wire,                   \* the sends and receives made on the socket
    muxUp,                  \* odr-dabmux answers its ZMQ remote control
    ncalls                  \* number of mux_send calls made so far

VARIABLES
    mainpc                  \* position of the main thread in main()

VARIABLES
    msg_counter,            \* cap/parser.py: the module global msg_counter
    resp,                   \* the last HTTP response of _index
    acks,                   \* the identifiers of the acknowledgements sent
    cap                     \* CAPServer._cap: which CAPHTTP thread serves

VARIABLES
    ran,                    \* which spawn of odr-audioenc got past its start
    leftpads                \* odr-padenc processes that ended threads left alive

VARIABLES
    wpc,                    \* position of the watcher thread in setcfg
    wstream,                \* setcfg: stream
    wi,                     \* setcfg: i, the index the loop stopped at
    wnewcfg,                \* setcfg: newcfg
    wout,                   \* setcfg: o, the FIFO of the tuple
    opc,                    \* position of the operator thread in stop()
    oi,                     \* stop(): position of the iterator over the list
    ostream,                \* stop(): s, the stream whose thread t is joined
    odead                   \* stop(): t is a thread setcfg has since replaced

VARIABLES
    last_data,              \* MSCDataGroupBuilder.last_data
    gconi,                  \* MSCDataGroupBuilder.coni
    repi,                   \* MSCDataGroupBuilder.repi
    group,                  \* what group_builder.build returned last
    gcalls,                 \* number of group_builder.build calls
    changes,                \* how many of them had a payload that differed
    first_last,             \* PacketBuilder.first_last
    pconi,                  \* PacketBuilder.coni
    pdata,                  \* the argument of the last packet_builder.build
    packets,                \* what packet_builder.build returned last
    prevpackets,            \* what the call before it returned
    pcalls                  \* number of packet_builder.build calls

\* the variables of the watcher, the intake and the multiplexer
watcherVars == <<cfg, now, q, unfinished, hpc, hev, posts, pc, running, announcements,
                 future_announcements, changed, muxAnn, label, input, ttsStr,
                 issued, logged>>

\* the variables of the stream supervisor
streamVars == <<streamscfg, streams, fifos, nextfifo, mpc, jpc, mstream,
                mnewcfg, mi, ops, tpc, trunning, streamcfg, failcounter,
                spawns, audio, pad>>

\* the variables of the mux control channel
sockVars == <<cpc, cmsg, cidx, cres, sock, wire, muxUp, ncalls>>

\* the variables of the acknowledgement of the CAP intake
ackVars == <<msg_counter, resp, acks, cap>>

\* the encoder processes of a stream beyond those its thread refers to
encVars == <<ran, leftpads>>

\* the variables of a setcfg of the watcher and a stop() of the operator
raceVars == <<wpc, wstream, wi, wnewcfg, wout, opc, oi, ostream, odead>>

\* the variables of the MSC data group builder of a data stream
groupVars == <<last_data, gconi, repi, group, gcalls, changes>>

\* the variables of the packet builder of a data stream
packetVars == <<first_last, pconi, pdata, packets, prevpackets, pcalls>>

\* what the steps of the watcher and the intake leave alone
outsideWatcher == <<streamVars, sockVars, mainpc, ackVars, groupVars, packetVars,
    encVars, raceVars>>

\* what the steps of the stream supervisor leave alone
outsideStreams == <<watcherVars, sockVars, mainpc, ackVars, groupVars, packetVars,
    encVars, raceVars>>

\* what _start_stream, which sets up a new thread, leaves alone
outsideSup == <<watcherVars, sockVars, mainpc, ackVars, groupVars, packetVars,
    raceVars>>

\* what the steps of the mux control channel leave alone
outsideSock == <<watcherVars, streamVars, mainpc, ackVars, groupVars, packetVars,
    encVars, raceVars>>

\* what the steps of main() leave alone, the watcher's variables apart
outsideMain == <<streamVars, sockVars, ackVars, groupVars, packetVars,
    encVars, raceVars>>

\* what the steps of _index leave alone, the watcher's variables apart
outsideIntake == <<streamVars, sockVars, mainpc, groupVars, packetVars,
    encVars, raceVars>>

\* what the steps of a data stream leave alone
outsideData == <<watcherVars, streamVars, sockVars, mainpc, ackVars,
    encVars, raceVars>>

vars == <<cfg, now, q, unfinished, hpc, hev, posts, pc, running, announcements,
          future_announcements, changed, muxAnn, label, input, ttsStr, issued,
          logged, streamscfg, streams, fifos, nextfifo, mpc, jpc, mstream,
          mnewcfg, mi, ops, tpc, trunning, streamcfg, failcounter, spawns,
          audio, pad, cpc, cmsg, cidx, cres, sock, wire, muxUp, ncalls,
          mainpc, msg_counter, resp, acks, cap, ran, leftpads,
          wpc, wstream, wi, wnewcfg, wout, opc, oi, ostream, odead,
          last_data, gconi, repi, group, gcalls, changes,
          first_last, pconi, pdata, packets, prevpackets, pcalls>>

(***************************************************************************)
(* Python list helpers                                                      *)
(***************************************************************************)
\* list.pop(i) / del list[i] (1-based here)
RemoveAt(l, i) == [k \in 1..(Len(l) - 1) |-> IF k < i THEN l[k] ELSE l[k + 1]]

\* list.remove(x): removes the first element equal to x
Remove(l, x) ==
    IF \E k \in 1..Len(l) : l[k] = x
    THEN RemoveAt(l, CHOOSE k \in 1..Len(l) : l[k] = x /\ \A j \in 1..(k - 1) : l[j] /= x)
    ELSE l

(***************************************************************************)
(* DABWatcher.run: the three list walks                                     *)
(***************************************************************************)
\* a['expires'] < datetime.datetime.now(...)
Expired(a, t) == a.expires < t

\* "for a in announcements: if expired: announcements.remove(a)", from the
\* iterator position i on: the iterator advances by one whether or not the
\* list shrank under it
RECURSIVE SweepFrom(_, _, _)
SweepFrom(l, i, t) ==
    IF i > Len(l) THEN l
    ELSE IF Expired(l[i], t) THEN SweepFrom(Remove(l, l[i]), i + 1, t)
    ELSE SweepFrom(l, i + 1, t)

Sweep(l, t) == SweepFrom(l, 1, t)

\* a['effective'] <= datetime.datetime.now(...)
Effective(a, t) == a.effective <= t

\* "for i, a in enumerate(future_announcements): if effective:
\*  announcements.append(future_announcements.pop(i))", from position i on;
\* the result is <<announcements, future_announcements>>
RECURSIVE PromoteFrom(_, _, _, _)
PromoteFrom(act, fut, i, t) ==
    IF i > Len(fut) THEN <<act, fut>>
    ELSE IF Effective(fut[i], t)
         THEN PromoteFrom(Append(act, fut[i]), RemoveAt(fut, i), i + 1, t)
         ELSE PromoteFrom(act, fut, i + 1, t)

Promote(act, fut, t) == PromoteFrom(act, fut, 1, t)

\* ref matches _a on sender, identifier and sent
Matches(ref, a) ==
    /\ ref.sender = a.sender
    /\ ref.identifier = a.identifier
    /\ ref.sent = a.sent

\* "for _a in l: if matches: l.remove(_a)", from position i on
RECURSIVE CancelFrom(_, _, _)
CancelFrom(l, ref, i) ==
    IF i > Len(l) THEN l
    ELSE IF Matches(ref, l[i]) THEN CancelFrom(Remove(l, l[i]), ref, i + 1)
    ELSE CancelFrom(l, ref, i + 1)

\* the loop over a['references'], from reference r on; the result is
\* <<announcements, future_announcements, cancelled>>
RECURSIVE CancelRefs(_, _, _, _, _)
CancelRefs(refs, r, act, fut, cancelled) ==
    IF r > Len(refs) THEN <<act, fut, cancelled>>
    ELSE LET act2 == CancelFrom(act, refs[r], 1)
             fut2 == CancelFrom(fut, refs[r], 1)
             hit == \/ \E k \in 1..Len(act) : Matches(refs[r], act[k])
                    \/ \E k \in 1..Len(fut) : Matches(refs[r], fut[k])
         IN  CancelRefs(refs, r + 1, act2, fut2, cancelled \/ hit)

(***************************************************************************)
(* utils.mux_send and utils.replace_streams                                 *)
(***************************************************************************)
\* what mux_send returns for a 'set' command: None when the ping was not
\* answered 'ok', the multiplexer's reply otherwise
MuxReply(ok) == IF ok THEN "ok" ELSE "None"

\* the multiplexer's announcements after mux_send(('set', name, 'active', v)):
\* the command is only sent when the ping was answered 'ok'
MuxSetActive(ann, name, v, ok) ==
    IF ok /\ name \in DOMAIN ann THEN [ann EXCEPT ![name] = v] ELSE ann

\* the switchover's view of the outside world: st.muxAnn, st.label, st.input
\* and st.issued stand for the variables of the same names

\* replace_streams(zmqsock, srvcfg, muxcfg, streams, input_type, inputuri,
\* data_streams): the one service advertising Alarm gets its label, shortlabel
\* and pty set over the mux channel; each of its audio (or packet data)
\* components has its stream restarted with the new input through setcfg
replace_streams(st, input_type, data_streams, ok) ==
    LET alarm_on == input_type /= "None"
        newlabel == IF alarm_on THEN "warning" ELSE "original"
        hit == IF data_streams THEN DataStreams ELSE AudioStreams
    IN  [st EXCEPT
            !.label = IF ok THEN newlabel ELSE st.label,
            !.input = [s \in StreamNames |->
                          IF s \in hit
                          THEN (IF alarm_on THEN input_type ELSE "original")
                          ELSE st.input[s]],
            !.issued = st.issued \cup {<<"set", "label", newlabel, MuxReply(ok)>>}
                          \cup {<<"setcfg", s, input_type>> : s \in hit}]

(***************************************************************************)
(* DABWatcher.run: the two switchover branches                              *)
(***************************************************************************)
\* "if len(announcements) == 0": the body of the loop over streams.streams
\* for the stream at position k
QuietStream(st, k, ok) ==
    IF Streams[k].output_type /= "data"
    THEN LET st1 == IF cfg.alarm
                    THEN [st EXCEPT
                            !.muxAnn = MuxSetActive(st.muxAnn, "alarm", 0, ok),
                            !.issued = st.issued
                                \cup {<<"set", "alarm", "active", 0, MuxReply(ok)>>}]
                    ELSE st
         IN  IF cfg.replace THEN replace_streams(st1, "None", FALSE, ok) ELSE st1
    ELSE IF cfg.data THEN replace_streams(st, "None", TRUE, ok)
    ELSE st

RECURSIVE QuietFrom(_, _, _)
QuietFrom(st, k, ok) ==
    IF k > Len(Streams) THEN st
    ELSE QuietFrom(QuietStream(st, k, ok), k + 1, ok)

\* _broadcast_tts(tts_str, language), tts being the outcome of the voice
\* lookup, the synthesis and the ffmpeg transcode
TTSOutcomes == {"ok", "no_voice", "ffmpeg_failed", "ffmpeg_timeout"}

broadcast_tts(st, tts, ok) ==
    IF tts /= "ok" THEN st
    ELSE LET st1 == IF cfg.alarm
                    THEN [st EXCEPT
                            !.muxAnn = MuxSetActive(st.muxAnn, cfg.announcement, 1, ok),
                            !.issued = st.issued
                                \cup {<<"set", cfg.announcement, "active", 1, MuxReply(ok)>>}]
                    ELSE st
         IN  IF cfg.replace THEN replace_streams(st1, "file", FALSE, ok) ELSE st1

\* "elif self.alarm or self.replace": data streams first, then the TTS message
WarningAction(st, tts, ok) ==
    LET st1 == IF DataStreams /= {} THEN replace_streams(st, "fifo", TRUE, ok) ELSE st
    IN  IF AudioStreams /= {}
        THEN broadcast_tts([st1 EXCEPT !.issued = st1.issued \cup {<<"tts", tts>>}],
                           tts, ok)
        ELSE st1

\* what tts_str is composed from: the messages of the announcements, in order
Identifiers_of(l) == [k \in 1..Len(l) |-> l[k].identifier]

\* the switchover as a whole, for the current announcements
Switchover(st, tts, ok) ==
    IF Len(announcements) = 0 THEN QuietFrom(st, 1, ok)
    ELSE IF cfg.alarm \/ cfg.replace THEN WarningAction(st, tts, ok)
    ELSE st

(***************************************************************************)
(* Initial state                                                            *)
(***************************************************************************)
NoEvent == [msg_type |-> "None"]

\* the checked configurations: alarm and replace as main.py sets them by
\* default ('yes'), data on or off, any announcement of the multiplexer
Config ==
    [alarm : {TRUE}, replace : {TRUE}, data : BOOLEAN,
     announcement : AnnouncementNames]

Init ==
    /\ cfg \in Config
    /\ now = 0
    /\ q = <<>>
    /\ unfinished = 0
    /\ hpc = "idle"
    /\ hev = NoEvent
    /\ posts = 0
    /\ pc = "sweep"
    /\ running = TRUE
    /\ announcements = <<>>
    /\ future_announcements = <<>>
    /\ changed = FALSE
    /\ muxAnn = [n \in AnnouncementNames |-> 0]
    /\ label = "original"
    /\ input = [s \in StreamNames |-> "original"]
    /\ ttsStr = <<>>
    /\ issued = {}
    /\ logged = {}
    /\ streamscfg = [s \in {} |-> NoCfg]
    /\ streams = <<>>
    /\ fifos = {}
    /\ nextfifo = 1
    /\ mpc = "idle"
    /\ jpc = "none"
    /\ mstream = "none"
    /\ mnewcfg = NoCfg
    /\ mi = 0
    /\ ops = 0
    /\ tpc = [s \in StreamNames |-> "none"]
    /\ trunning = [s \in StreamNames |-> FALSE]
    /\ streamcfg = [s \in StreamNames |-> NoCfg]
    /\ failcounter = [s \in StreamNames |-> 0]
    /\ spawns = [s \in StreamNames |-> 0]
    /\ audio = [s \in StreamNames |-> "none"]
    /\ pad = [s \in StreamNames |-> "none"]
    /\ cpc = [c \in Callers |-> "idle"]
    /\ cmsg = [c \in Callers |-> <<>>]
    /\ cidx = [c \in Callers |-> 0]
    /\ cres = [c \in Callers |-> "none"]
    /\ sock = "ready"
    /\ wire = <<>>
    /\ muxUp = TRUE
    /\ ncalls = 0
    /\ mainpc = "menu"
    /\ msg_counter = 0
    /\ resp = NoResponse
    /\ acks = <<>>
    /\ cap = 0
    /\ ran = [s \in StreamNames |-> 0]
    /\ leftpads = [s \in StreamNames |-> 0]
    /\ wpc = "idle"
    /\ wstream = "none"
    /\ wi = 0
    /\ wnewcfg = NoCfg
    /\ wout = 0
    /\ opc = "idle"
    /\ oi = 0
    /\ ostream = "none"
    /\ odead = FALSE
    /\ last_data = NoData
    /\ gconi = 15
    /\ repi = 0
    /\ group = <<>>
    /\ gcalls = 0
    /\ changes = 0
    /\ first_last = 3
    /\ pconi = 0
    /\ pdata = <<>>
    /\ packets = <<>>
    /\ prevpackets = <<>>
    /\ pcalls = 0

(***************************************************************************)
(* The environment: the clock and the operator                              *)
(***************************************************************************)
Tick ==
    /\ now < MaxTime
    /\ now' = now + 1
    /\ UNCHANGED <<cfg, q, unfinished, hpc, hev, posts, pc, running, announcements,
                   future_announcements, changed, muxAnn, label, input, ttsStr,
                   issued, logged>>
    /\ UNCHANGED outsideWatcher

\* DABWatcher.join: the cooperative stop signal
Join ==
    /\ running
    /\ pc \notin {"stopped", "dead"}
    /\ running' = FALSE
    /\ UNCHANGED <<cfg, now, q, unfinished, hpc, hev, posts, pc, announcements,
                   future_announcements, changed, muxAnn, label, input, ttsStr,
                   issued, logged>>
    /\ UNCHANGED outsideWatcher

(***************************************************************************)
(* CAPServer._index                                                         *)
(***************************************************************************)
\* a POST with a valid Alert or Cancel: self._q.put(...) and, once it has
\* returned, the Ack with status 200. make_server(host, port, app) serves one
\* request at a time, so there is a single handler thread. Queue.put blocks (block=True, no timeout)
\* while the queue holds maxsize items: the handler then waits inside put
Post(e) ==
    /\ hpc = "idle"
    /\ posts < MaxPosts
    /\ posts' = posts + 1
    /\ IF Len(q) < queuelimit
       THEN /\ q' = Append(q, e)
            /\ unfinished' = unfinished + 1
            /\ hpc' = "idle"
            /\ hev' = NoEvent
       ELSE /\ hpc' = "put"
            /\ hev' = e
            /\ UNCHANGED <<q, unfinished>>
    /\ UNCHANGED <<cfg, now, pc, running, announcements, future_announcements,
                   changed, muxAnn, label, input, ttsStr, issued, logged>>
    /\ UNCHANGED outsideWatcher

\* the blocked put returns once the scheduler has taken an item, and the
\* handler answers 200
PutResume ==
    /\ hpc = "put"
    /\ Len(q) < queuelimit
    /\ q' = Append(q, hev)
    /\ unfinished' = unfinished + 1
    /\ hpc' = "idle"
    /\ hev' = NoEvent
    /\ UNCHANGED <<cfg, now, posts, pc, running, announcements,
                   future_announcements, changed, muxAnn, label, input, ttsStr,
                   issued, logged>>
    /\ UNCHANGED outsideWatcher

(***************************************************************************)
(* DABWatcher.run: one loop iteration, step by step                         *)
(***************************************************************************)
\* "while self._running" is false: the thread ends
LoopExit ==
    /\ pc = "sweep"
    /\ ~running
    /\ pc' = "stopped"
    /\ UNCHANGED <<cfg, now, q, unfinished, hpc, hev, posts, running, announcements,
                   future_announcements, changed, muxAnn, label, input, ttsStr,
                   issued, logged>>
    /\ UNCHANGED outsideWatcher

\* the expiry sweep over announcements
ExpirySweep ==
    /\ pc = "sweep"
    /\ running
    /\ announcements' = Sweep(announcements, now)
    /\ changed' = (changed \/ announcements' /= announcements)
    /\ issued' = {}
    /\ logged' = {}
    /\ pc' = "data"
    /\ UNCHANGED <<cfg, now, q, unfinished, hpc, hev, posts, running, future_announcements,
                   muxAnn, label, input, ttsStr>>
    /\ UNCHANGED outsideWatcher

\* the data rebroadcast: with data enabled, a data stream configured and an
\* announcement to write, the thread enters open(self.datafifo, 'wb')
DataRebroadcast ==
    /\ pc = "data"
    /\ pc' = IF /\ cfg.data
                /\ DataStreams /= {}
                /\ announcements \o future_announcements /= <<>>
             THEN "fifo"
             ELSE "promote"
    /\ UNCHANGED <<cfg, now, q, unfinished, hpc, hev, posts, running, announcements,
                   future_announcements, changed, muxAnn, label, input, ttsStr,
                   issued, logged>>
    /\ UNCHANGED outsideWatcher

\* when open() returns, a['raw'] raises KeyError (the queued dictionaries carry
\* no 'raw'), and when the path cannot be opened it raises OSError: neither is
\* caught in run(), the thread ends
DataWriteRaises ==
    /\ pc = "fifo"
    /\ pc' = "dead"
    /\ UNCHANGED <<cfg, now, q, unfinished, hpc, hev, posts, running, announcements,
                   future_announcements, changed, muxAnn, label, input, ttsStr,
                   issued, logged>>
    /\ UNCHANGED outsideWatcher

\* self.datafifo is a FIFO that no process has open for reading: the blocking
\* open(self.datafifo, 'wb') does not return (no stream started by DABStreams
\* reads this path, and the call has no timeout)
OpenBlocks ==
    /\ pc = "fifo"
    /\ pc' = "blocked"
    /\ UNCHANGED <<cfg, now, q, unfinished, hpc, hev, posts, running, announcements,
                   future_announcements, changed, muxAnn, label, input, ttsStr,
                   issued, logged>>
    /\ UNCHANGED outsideWatcher

\* the promotion of future announcements
Promotion ==
    /\ pc = "promote"
    /\ LET res == Promote(announcements, future_announcements, now)
       IN  /\ announcements' = res[1]
           /\ future_announcements' = res[2]
           /\ changed' = (changed \/ res[2] /= future_announcements)
    /\ pc' = "get"
    /\ UNCHANGED <<cfg, now, q, unfinished, hpc, hev, posts, running, muxAnn, label, input,
                   ttsStr, issued, logged>>
    /\ UNCHANGED outsideWatcher

\* q.get(block=True, timeout=1) raises queue.Empty
GetEmpty ==
    /\ pc = "get"
    /\ q = <<>>
    /\ pc' = IF ~changed THEN "sweep" ELSE "edge"
    /\ UNCHANGED <<cfg, now, q, unfinished, hpc, hev, posts, running, announcements,
                   future_announcements, changed, muxAnn, label, input, ttsStr,
                   issued, logged>>
    /\ UNCHANGED outsideWatcher

\* q.get returns an Alert
GetAlert ==
    /\ pc = "get"
    /\ q /= <<>>
    /\ Head(q).msg_type = "Alert"
    /\ q' = Tail(q)
    /\ LET a == Head(q)
       IN  IF a.expires <= now
           THEN /\ logged' = logged \cup {"Ignoring CAP message"}
                /\ unfinished' = unfinished - 1
                /\ pc' = "sweep"
                /\ UNCHANGED <<announcements, future_announcements, changed>>
           ELSE IF a.effective <= now
           THEN /\ announcements' = Append(announcements, a)
                /\ changed' = TRUE
                /\ unfinished' = unfinished - 1
                /\ pc' = "edge"
                /\ UNCHANGED <<future_announcements, logged>>
           ELSE /\ future_announcements' = Append(future_announcements, a)
                /\ unfinished' = unfinished - 1
                /\ pc' = "sweep"
                /\ UNCHANGED <<announcements, changed, logged>>
    /\ UNCHANGED <<cfg, now, hpc, hev, posts, running, muxAnn, label, input,
                   ttsStr, issued>>
    /\ UNCHANGED outsideWatcher

\* GetCancel without the "continue" of the unmatched case: an unmatched Cancel
\* falls through to "changed = True" and the switchover
GetCancel_FallsThrough ==
    /\ pc = "get"
    /\ q /= <<>>
    /\ Head(q).msg_type = "Cancel"
    /\ q' = Tail(q)
    /\ LET res == CancelRefs(Head(q).references, 1, announcements,
                             future_announcements, FALSE)
       IN  /\ announcements' = res[1]
           /\ future_announcements' = res[2]
           /\ logged' = IF res[3] = FALSE
                        THEN logged \cup {"Invalid CAP cancel request"}
                        ELSE logged
    /\ changed' = TRUE
    /\ unfinished' = unfinished - 1
    /\ pc' = "edge"
    /\ UNCHANGED <<cfg, now, hpc, hev, posts, running, muxAnn, label, input,
                   ttsStr, issued>>
    /\ UNCHANGED outsideWatcher

\* GetCancel without the task_done of the unmatched case
GetCancel_Unacknowledged ==
    /\ pc = "get"
    /\ q /= <<>>
    /\ Head(q).msg_type = "Cancel"
    /\ q' = Tail(q)
    /\ LET res == CancelRefs(Head(q).references, 1, announcements,
                             future_announcements, FALSE)
       IN  IF res[3] = FALSE
           THEN /\ logged' = logged \cup {"Invalid CAP cancel request"}
                /\ unfinished' = unfinished
                /\ pc' = "sweep"
                /\ UNCHANGED <<announcements, future_announcements, changed>>
           ELSE /\ announcements' = res[1]
                /\ future_announcements' = res[2]
                /\ changed' = TRUE
                /\ unfinished' = unfinished - 1
                /\ pc' = "edge"
                /\ UNCHANGED logged
    /\ UNCHANGED <<cfg, now, hpc, hev, posts, running, muxAnn, label, input,
                   ttsStr, issued>>
    /\ UNCHANGED outsideWatcher

\* q.get returns a Cancel
GetCancel ==
    /\ pc = "get"
    /\ q /= <<>>
    /\ Head(q).msg_type = "Cancel"
    /\ q' = Tail(q)
    /\ LET res == CancelRefs(Head(q).references, 1, announcements,
                             future_announcements, FALSE)
       IN  IF res[3] = FALSE
           THEN /\ logged' = logged \cup {"Invalid CAP cancel request"}
                /\ unfinished' = unfinished - 1
                /\ pc' = "sweep"
                /\ UNCHANGED <<announcements, future_announcements, changed>>
           ELSE /\ announcements' = res[1]
                /\ future_announcements' = res[2]
                /\ changed' = TRUE
                /\ unfinished' = unfinished - 1
                /\ pc' = "edge"
                /\ UNCHANGED logged
    /\ UNCHANGED <<cfg, now, hpc, hev, posts, running, muxAnn, label, input,
                   ttsStr, issued>>
    /\ UNCHANGED outsideWatcher

\* "if not self._running: break"
EdgeBreak ==
    /\ pc = "edge"
    /\ ~running
    /\ pc' = "stopped"
    /\ UNCHANGED <<cfg, now, q, unfinished, hpc, hev, posts, running, announcements,
                   future_announcements, changed, muxAnn, label, input, ttsStr,
                   issued, logged>>
    /\ UNCHANGED outsideWatcher

\* "changed = False" and the switchover; tts is the outcome of the TTS render
\* and transcode, ok whether the multiplexer answers the ping with 'ok'
EdgeAction(tts, ok) ==
    /\ pc = "edge"
    /\ running
    /\ changed' = FALSE
    /\ LET st == [muxAnn |-> muxAnn, label |-> label, input |-> input,
                  issued |-> issued]
           res == Switchover(st, tts, ok)
           renders == /\ Len(announcements) > 0
                      /\ cfg.alarm \/ cfg.replace
                      /\ AudioStreams /= {}
       IN  /\ muxAnn' = res.muxAnn
           /\ label' = res.label
           /\ input' = res.input
           /\ issued' = res.issued
           /\ ttsStr' = IF renders THEN Identifiers_of(announcements) ELSE ttsStr
    /\ pc' = "sweep"
    /\ UNCHANGED <<cfg, now, q, unfinished, hpc, hev, posts, running, announcements,
                   future_announcements, logged>>
    /\ UNCHANGED outsideWatcher

(***************************************************************************)
(* Specification                                                            *)
(***************************************************************************)
Next ==
    \/ Tick
    \/ \E e \in Events : Post(e)
    \/ PutResume
    \/ ExpirySweep
    \/ DataRebroadcast
    \/ DataWriteRaises
    \/ OpenBlocks
    \/ Promotion
    \/ GetEmpty
    \/ GetAlert
    \/ GetCancel
    \/ \E tts \in TTSOutcomes, ok \in BOOLEAN : EdgeAction(tts, ok)

\* the steps of the watcher thread while the server is in operation
WatcherNext ==
    \/ ExpirySweep
    \/ DataRebroadcast
    \/ DataWriteRaises
    \/ OpenBlocks
    \/ Promotion
    \/ GetEmpty
    \/ GetAlert
    \/ GetCancel
    \/ \E tts \in TTSOutcomes, ok \in BOOLEAN : EdgeAction(tts, ok)

\* the server in operation
Spec == Init /\ [][Next]_vars

\* the server in operation and its shutdown
NextShutdown ==
    \/ Next
    \/ Join
    \/ LoopExit
    \/ EdgeBreak

SpecShutdown == Init /\ [][NextShutdown]_vars

(***************************************************************************)
(* Properties of the scheduler and the intake                               *)
(***************************************************************************)
\* the step taken is the watcher's step out of position p
WatcherStep(p) == pc = p /\ pc' /= p

\* the switchover of this tick got None from mux_send for some command
MuxFailed(calls) == \E c \in calls : c[1] = "set" /\ c[Len(c)] = "None"

\* the switchover of this tick failed to render or transcode the TTS message
TTSFailed(calls) == \E c \in calls : c[1] = "tts" /\ c[2] /= "ok"

\* some alert of list l has the (sender, identifier, sent) of reference ref
MatchedIn(ref, l) == \E k \in 1..Len(l) : Matches(ref, l[k])

\* C1: when a tick has ended with a switchover in which the TTS render and
\* every mux command succeeded and no change is left to handle, the configured
\* announcement is active in the multiplexer if and only if the active list
\* is non-empty.
C1_WarningIffActive ==
    (pc = "sweep" /\ ~changed /\ issued /= {}
            /\ ~MuxFailed(issued) /\ ~TTSFailed(issued))
        => (muxAnn[cfg.announcement] = 1 <=> announcements /= <<>>)

\* C2: once the watcher has processed a Cancel, no alert left in the active or
\* the pending list matches a reference of that Cancel.
C2_CancelRemovesEveryMatch ==
    [][(WatcherStep("get") /\ q /= <<>> /\ Head(q).msg_type = "Cancel")
        => \A r \in 1..Len(Head(q).references) :
              /\ ~MatchedIn(Head(q).references[r], announcements')
              /\ ~MatchedIn(Head(q).references[r], future_announcements')]_vars

\* C3: when the switchover runs for an empty active list and the multiplexer
\* answers, no announcement is left active, the service has its original
\* label and every stream its original input.
C3_QuietRestoresEverything ==
    [][(WatcherStep("edge") /\ pc' = "sweep" /\ Len(announcements) = 0
            /\ ~MuxFailed(issued'))
        => /\ \A n \in AnnouncementNames : muxAnn'[n] = 0
           /\ label' = "original"
           /\ \A s \in StreamNames : input'[s] = "original"]_vars

\* C4: a Warning switchover whose TTS render or transcode fails, with the
\* multiplexer answering, still leaves the configured announcement active and
\* the data streams on the warning FIFO.
C4_TTSFailureKeepsAlarmAndData ==
    [][(WatcherStep("edge") /\ pc' = "sweep" /\ Len(announcements) > 0
            /\ TTSFailed(issued') /\ ~MuxFailed(issued'))
        => /\ muxAnn'[cfg.announcement] = 1
           /\ \A s \in DataStreams : input'[s] = "fifo"]_vars

\* C5: the HTTP handler is never waiting inside the put on the scheduler queue.
C5_HandlerNeverBlocks == hpc /= "put"

\* the alerts of list l are pairwise different messages
Distinct(l) == \A i, j \in 1..Len(l) : i /= j => ~Matches(l[i], l[j])

\* C6: after the promotion step every alert still pending has effective > now,
\* already for a pending list of pairwise different messages.
C6_PromotionMovesEveryEffective ==
    [][(WatcherStep("promote") /\ Distinct(future_announcements))
        => \A k \in 1..Len(future_announcements') :
              ~Effective(future_announcements'[k], now)]_vars

\* C7: no alert is in the pending list and in the active list at the same
\* time, already for one and the same message (equal in every field).
C7_PendingActiveDisjoint ==
    \A i \in 1..Len(announcements) : \A j \in 1..Len(future_announcements) :
        announcements[i] /= future_announcements[j]

\* C8: a Cancel none of whose references matches an alert in the active or the
\* pending list leaves both lists, the changed flag, the multiplexer, the
\* streams and the TTS message as they are, makes no switchover call and sends
\* the watcher back to the start of the loop, not to the switchover.
C8_UnmatchedCancelIsNoOp ==
    [][(/\ WatcherStep("get") /\ q /= <<>> /\ Head(q).msg_type = "Cancel"
        /\ \A r \in 1..Len(Head(q).references) :
              /\ ~MatchedIn(Head(q).references[r], announcements)
              /\ ~MatchedIn(Head(q).references[r], future_announcements))
        => /\ announcements' = announcements
           /\ future_announcements' = future_announcements
           /\ changed' = changed
           /\ muxAnn' = muxAnn /\ label' = label /\ input' = input
           /\ ttsStr' = ttsStr
           /\ issued' = issued
           /\ pc' = "sweep"]_vars

\* C8 witness: the watcher has just logged an unmatched Cancel while an alert
\* it did not reference is active.
C8_Witness ==
    /\ pc = "sweep"
    /\ "Invalid CAP cancel request" \in logged
    /\ announcements /= <<>>

\* the broadcast is fully switched to the warning
Swapped ==
    /\ muxAnn[cfg.announcement] = 1
    /\ label = "warning"
    /\ \A s \in AudioStreams : input[s] = "file"
    /\ \A s \in DataStreams : input[s] = "fifo"

\* C9: a Warning switchover run while the broadcast is already switched and
\* the TTS message was composed from the same active list makes no setcfg
\* call, sends no label command and renders no TTS message (with the
\* multiplexer answering).
C9_SecondWarningIsNoOp ==
    [][(WatcherStep("edge") /\ pc' = "sweep" /\ Len(announcements) > 0
            /\ Swapped /\ ttsStr = Identifiers_of(announcements)
            /\ ~MuxFailed(issued'))
        => \A c \in issued' : c[1] = "set" /\ c[2] /= "label"]_vars

\* C10: a switchover in which a mux command got no 'ok' for its ping leaves the
\* change pending, so that the next tick runs the switchover again.
C10_FailedCommandIsRetried ==
    [][(WatcherStep("edge") /\ pc' = "sweep" /\ MuxFailed(issued'))
        => changed']_vars

\* C11: whenever the watcher starts a data rebroadcast (it enters the write of
\* the alerts to the data FIFO), the Warning switchover has already switched
\* the data streams to the warning FIFO.
C11_EdgeBeforeRebroadcast ==
    [][(pc = "data" /\ pc' = "fifo")
        => \A s \in DataStreams : input[s] = "fifo"]_vars

\* C12: with an alert in the active list, the write to the data FIFO that the
\* data step started completes, and the tick goes on to the promotion with the
\* raw XML delivered.
C12_RawDeliveredEveryTick ==
    [][(WatcherStep("fifo") /\ announcements /= <<>>) => pc' = "promote"]_vars

\* C13: a watcher whose open of the data FIFO does not return for lack of a
\* reader has a step to take: it abandons the write and the tick continues.
C13_BlockedWriteIsAbandoned == pc = "blocked" => ENABLED WatcherNext

\* C14: no failure while an event is processed, a switchover is performed or
\* the data is written ends the watcher thread.
C14_NoFailureEndsThread == pc /= "dead"

(***************************************************************************)
(* The stream supervisor: DABStream threads                                 *)
(***************************************************************************)
\* SectionProxy.getboolean over the values streams.ini holds
getboolean(v) == v = "yes"

\* run(): odr-padenc is started only with DLS and MOT both enabled
pad_enable(c) == getboolean(c.dls_enable) /\ getboolean(c.mot_enable)

\* Thread.is_alive(): run() has not returned
is_alive(s) == tpc[s] \in {"loop", "spawn", "pad", "comm"}

\* position k of the tuple of stream s in self.streams (0: not in the list)
IndexOf(l, s) ==
    IF \E k \in 1..Len(l) : l[k].name = s
    THEN CHOOSE k \in 1..Len(l) : l[k].name = s
    ELSE 0

\* the test of "while self._running and failcounter < 4"; when it fails with
\* _running still set, run() logs "Terminating DAB stream" and returns
LoopTest(s) ==
    /\ tpc[s] = "loop"
    /\ tpc' = [tpc EXCEPT ![s] =
                  IF trunning[s] /\ failcounter[s] < FailLimit THEN "spawn"
                  ELSE IF trunning[s] THEN "failed"
                  ELSE "done"]
    /\ UNCHANGED <<streamscfg, streams, fifos, nextfifo, mpc, jpc, mstream,
                   mnewcfg, mi, ops, trunning, streamcfg, failcounter, spawns,
                   audio, pad>>
    /\ UNCHANGED outsideStreams

\* self.audio = subproc.Popen(audioenc_cmdline, ...)
SpawnAudio(s) ==
    /\ tpc[s] = "spawn"
    /\ spawns[s] < MaxSpawns
    /\ audio' = [audio EXCEPT ![s] = "alive"]
    /\ spawns' = [spawns EXCEPT ![s] = @ + 1]
    /\ tpc' = [tpc EXCEPT ![s] =
                  IF pad_enable(streamcfg[s]) THEN "pad" ELSE "comm"]
    /\ UNCHANGED <<streamscfg, streams, fifos, nextfifo, mpc, jpc, mstream,
                   mnewcfg, mi, ops, trunning, streamcfg, failcounter, pad>>
    /\ UNCHANGED outsideStreams

\* self.pad = subproc.Popen(padenc_cmdline, ...)
SpawnPad(s) ==
    /\ tpc[s] = "pad"
    /\ pad' = [pad EXCEPT ![s] = "alive"]
    /\ tpc' = [tpc EXCEPT ![s] = "comm"]
    /\ UNCHANGED <<streamscfg, streams, fifos, nextfifo, mpc, jpc, mstream,
                   mnewcfg, mi, ops, trunning, streamcfg, failcounter, spawns,
                   audio>>
    /\ UNCHANGED outsideStreams

\* odr-audioenc exits: by itself, or on the SIGTERM it was sent
AudioExits(s) ==
    /\ audio[s] \in {"alive", "termed"}
    /\ audio' = [audio EXCEPT ![s] = "exited"]
    /\ UNCHANGED <<streamscfg, streams, fifos, nextfifo, mpc, jpc, mstream,
                   mnewcfg, mi, ops, tpc, trunning, streamcfg, failcounter,
                   spawns, pad>>
    /\ UNCHANGED outsideStreams

\* odr-padenc exits by itself
PadExits(s) ==
    /\ pad[s] = "alive"
    /\ pad' = [pad EXCEPT ![s] = "exited"]
    /\ UNCHANGED <<streamscfg, streams, fifos, nextfifo, mpc, jpc, mstream,
                   mnewcfg, mi, ops, tpc, trunning, streamcfg, failcounter,
                   spawns, audio>>
    /\ UNCHANGED outsideStreams

\* the mutant of Communicated: the failcounter is not maintained
Communicated_NoCount(s, padTerminates) ==
    /\ tpc[s] = "comm"
    /\ audio[s] = "exited"
    /\ IF pad_enable(streamcfg[s]) /\ pad[s] /= "exited" /\ ~padTerminates
       THEN /\ pad' = [pad EXCEPT ![s] = "termed"]
            /\ tpc' = [tpc EXCEPT ![s] =
                          IF trunning[s] THEN "failed" ELSE "done"]
       ELSE /\ pad' = [pad EXCEPT ![s] =
                          IF pad_enable(streamcfg[s]) THEN "exited" ELSE @]
            /\ tpc' = [tpc EXCEPT ![s] = "loop"]
    /\ UNCHANGED <<streamscfg, streams, fifos, nextfifo, mpc, jpc, mstream,
                   mnewcfg, mi, ops, trunning, streamcfg, failcounter, spawns,
                   audio>>
    /\ UNCHANGED outsideStreams

\* self.audio.communicate() returns when odr-audioenc has exited; odr-padenc
\* is sent SIGTERM and waited for 5 s: when it has not exited by then run()
\* logs and breaks out of the loop, leaving it alive; otherwise run() sleeps,
\* counts the exit and goes back to the test of the loop
Communicated(s, padTerminates) ==
    /\ tpc[s] = "comm"
    /\ audio[s] = "exited"
    /\ IF pad_enable(streamcfg[s]) /\ pad[s] /= "exited" /\ ~padTerminates
       THEN /\ pad' = [pad EXCEPT ![s] = "termed"]
            /\ tpc' = [tpc EXCEPT ![s] =
                          IF trunning[s] THEN "failed" ELSE "done"]
            /\ UNCHANGED failcounter
       ELSE /\ pad' = [pad EXCEPT ![s] =
                          IF pad_enable(streamcfg[s]) THEN "exited" ELSE @]
            /\ failcounter' = [failcounter EXCEPT ![s] = @ + 1]
            /\ tpc' = [tpc EXCEPT ![s] = "loop"]
    /\ UNCHANGED <<streamscfg, streams, fifos, nextfifo, mpc, jpc, mstream,
                   mnewcfg, mi, ops, trunning, streamcfg, spawns, audio>>
    /\ UNCHANGED outsideStreams

\* DABStream.join up to the wait: a thread that is not alive is not touched;
\* otherwise _running is cleared and odr-audioenc, if any, is sent SIGTERM
StreamJoinBegin ==
    /\ jpc = "begin"
    /\ IF ~is_alive(mstream)
       THEN /\ jpc' = "super"
            /\ UNCHANGED <<trunning, audio>>
       ELSE /\ trunning' = [trunning EXCEPT ![mstream] = FALSE]
            /\ audio' = [audio EXCEPT ![mstream] =
                            IF @ = "alive" THEN "termed" ELSE @]
            /\ jpc' = IF audio[mstream] /= "none" THEN "wait" ELSE "super"
    /\ UNCHANGED <<streamscfg, streams, fifos, nextfifo, mpc, mstream,
                   mnewcfg, mi, ops, tpc, streamcfg, failcounter, spawns, pad>>
    /\ UNCHANGED outsideStreams

\* self.audio.wait(timeout=5) returns: the process has exited
StreamJoinWaitReturns ==
    /\ jpc = "wait"
    /\ audio[mstream] = "exited"
    /\ jpc' = "super"
    /\ UNCHANGED <<streamscfg, streams, fifos, nextfifo, mpc, mstream,
                   mnewcfg, mi, ops, tpc, trunning, streamcfg, failcounter,
                   spawns, audio, pad>>
    /\ UNCHANGED outsideStreams

\* self.audio.wait(timeout=5) raises TimeoutExpired: the process (or the one
\* run() has spawned since) is still alive; join logs the error and goes on
StreamJoinWaitTimeout ==
    /\ jpc = "wait"
    /\ audio[mstream] \in {"alive", "termed"}
    /\ jpc' = "super"
    /\ UNCHANGED <<streamscfg, streams, fifos, nextfifo, mpc, mstream,
                   mnewcfg, mi, ops, tpc, trunning, streamcfg, failcounter,
                   spawns, audio, pad>>
    /\ UNCHANGED outsideStreams

\* super().join() has returned (or join returned at once): run() has ended
Joined == jpc = "super" /\ ~is_alive(mstream)

(***************************************************************************)
(* The stream supervisor: DABStreams                                        *)
(***************************************************************************)
\* _start_stream succeeded: a DABStream is constructed and started; an
\* odr-padenc the thread before it left alive is referred to by nothing
NewThread(st, s, c) ==
    [st EXCEPT !.tpc[s] = "loop", !.trunning[s] = TRUE, !.streamcfg[s] = c,
               !.failcounter[s] = 0, !.spawns[s] = 0, !.audio[s] = "none",
               !.pad[s] = "none", !.ran[s] = 0,
               !.leftpads[s] = IF st.pad[s] \in {"alive", "termed"}
                               THEN @ + 1 ELSE @]

\* the loop of start() from section k on: create_fifo(), then _start_stream,
\* which inserts the stream at the end of the list, or remove_fifo() when the
\* stream could not be started
RECURSIVE StartFrom(_, _, _)
StartFrom(st, k, oks) ==
    IF k > Len(Sections) THEN st
    ELSE LET s == Sections[k]
             out == st.nextfifo
             created == [st EXCEPT !.nextfifo = @ + 1, !.fifos = @ \cup {out}]
         IN  IF oks[s]
             THEN StartFrom(
                      NewThread(
                          [created EXCEPT !.streams =
                              Append(@, [name |-> s, cfg |-> StreamsIni(s),
                                         out |-> out])],
                          s, StreamsIni(s)),
                      k + 1, oks)
             ELSE StartFrom([created EXCEPT !.fifos = @ \ {out}], k + 1, oks)

\* the supervisor state the operations of DABStreams work on
SupState ==
    [streams |-> streams, fifos |-> fifos, nextfifo |-> nextfifo, tpc |-> tpc,
     trunning |-> trunning, streamcfg |-> streamcfg,
     failcounter |-> failcounter, spawns |-> spawns, audio |-> audio,
     pad |-> pad, ran |-> ran, leftpads |-> leftpads]

\* the supervisor state after an operation
SetSupState(st) ==
    /\ streams' = st.streams
    /\ fifos' = st.fifos
    /\ nextfifo' = st.nextfifo
    /\ tpc' = st.tpc
    /\ trunning' = st.trunning
    /\ streamcfg' = st.streamcfg
    /\ failcounter' = st.failcounter
    /\ spawns' = st.spawns
    /\ audio' = st.audio
    /\ pad' = st.pad
    /\ ran' = st.ran
    /\ leftpads' = st.leftpads

\* DABStreams.start(), called with no stream supervised (at startup, and by
\* restart() after stop()); oks[s]: _start_stream succeeds for section s
Start(oks) ==
    /\ mpc = "idle"
    /\ ops < MaxOps
    /\ streams = <<>>
    /\ ops' = ops + 1
    /\ streamscfg' = [s \in StreamNames |-> StreamsIni(s)]
    /\ SetSupState(StartFrom(SupState, 1, oks))
    /\ UNCHANGED <<mpc, jpc, mstream, mnewcfg, mi>>
    /\ UNCHANGED outsideSup

\* replace_streams: the deep copy of the stream's current configuration
\* with the warning input and with DLS and MOT switched off
Replacement(c, input_type, inputuri) ==
    [c EXCEPT !.input_type = input_type, !.input = inputuri,
              !.dls_enable = "no", !.mot_enable = "no"]

\* the configurations replace_streams passes to setcfg
SetcfgArgs == {"default", "file", "fifo"}

\* setcfg(stream, newcfg) up to the join of the old thread; a newcfg of None
\* is replaced by the stored configuration self._streamscfg[stream]
SetcfgCall(s, arg) ==
    /\ mpc = "idle"
    /\ ops < MaxOps
    /\ IndexOf(streams, s) /= 0
    /\ ops' = ops + 1
    /\ mpc' = "setcfg"
    /\ jpc' = "begin"
    /\ mstream' = s
    /\ mnewcfg' = IF arg = "default" THEN streamscfg[s]
                  ELSE Replacement(streams[IndexOf(streams, s)].cfg, arg,
                                   IF arg = "file" THEN "tts.wav"
                                   ELSE "data.fifo")
    /\ UNCHANGED <<streamscfg, streams, fifos, nextfifo, mi, tpc, trunning,
                   streamcfg, failcounter, spawns, audio, pad>>
    /\ UNCHANGED outsideStreams

\* setcfg after the join: del self.streams[i], sleep, and _start_stream with
\* the new configuration and the old FIFO; ok: _start_stream succeeds
SetcfgRestart(ok) ==
    /\ mpc = "setcfg"
    /\ Joined
    /\ LET i == IndexOf(streams, mstream)
           deleted == [SupState EXCEPT !.streams = RemoveAt(@, i)]
           started ==
               NewThread(
                   [SupState EXCEPT !.streams[i] =
                       [name |-> mstream, cfg |-> mnewcfg,
                        out |-> streams[i].out]],
                   mstream, mnewcfg)
       IN  SetSupState(IF ok THEN started ELSE deleted)
    /\ mpc' = "idle"
    /\ jpc' = "none"
    /\ mstream' = "none"
    /\ mnewcfg' = NoCfg
    /\ UNCHANGED <<streamscfg, mi, ops>>
    /\ UNCHANGED outsideSup

\* stop() up to the join of the first stream: remove_fifo(o), then t.join()
StopCall ==
    /\ mpc = "idle"
    /\ ops < MaxOps
    /\ DOMAIN streamscfg /= {}
    /\ streams /= <<>>
    /\ ops' = ops + 1
    /\ mpc' = "stop"
    /\ mi' = 1
    /\ fifos' = fifos \ {streams[1].out}
    /\ mstream' = streams[1].name
    /\ jpc' = "begin"
    /\ UNCHANGED <<streamscfg, streams, nextfifo, mnewcfg, tpc, trunning,
                   streamcfg, failcounter, spawns, audio, pad>>
    /\ UNCHANGED outsideStreams

\* stop() after a join: the next stream's remove_fifo(o) and t.join(), or,
\* after the last stream, self.streams = []
StopNext ==
    /\ mpc = "stop"
    /\ Joined
    /\ IF mi < Len(streams)
       THEN /\ mi' = mi + 1
            /\ fifos' = fifos \ {streams[mi + 1].out}
            /\ mstream' = streams[mi + 1].name
            /\ jpc' = "begin"
            /\ UNCHANGED <<streams, mpc>>
       ELSE /\ streams' = <<>>
            /\ mpc' = "idle"
            /\ jpc' = "none"
            /\ mstream' = "none"
            /\ mi' = 0
            /\ UNCHANGED fifos
    /\ UNCHANGED <<streamscfg, nextfifo, mnewcfg, ops, tpc, trunning,
                   streamcfg, failcounter, spawns, audio, pad>>
    /\ UNCHANGED outsideStreams

NextStreams ==
    \/ \E oks \in [StreamNames -> BOOLEAN] : Start(oks)
    \/ \E s \in StreamNames, arg \in SetcfgArgs : SetcfgCall(s, arg)
    \/ \E ok \in BOOLEAN : SetcfgRestart(ok)
    \/ StopCall
    \/ StopNext
    \/ StreamJoinBegin
    \/ StreamJoinWaitReturns
    \/ StreamJoinWaitTimeout
    \/ \E s \in StreamNames : LoopTest(s)
    \/ \E s \in StreamNames : SpawnAudio(s)
    \/ \E s \in StreamNames : SpawnPad(s)
    \/ \E s \in StreamNames : AudioExits(s)
    \/ \E s \in StreamNames : PadExits(s)
    \/ \E s \in StreamNames, p \in BOOLEAN : Communicated(s, p)

\* the stream supervisor under the default [warning] configuration
InitStreams == Init /\ cfg.data /\ cfg.announcement = "alarm"

SpecStreams == InitStreams /\ [][NextStreams]_vars

(***************************************************************************)
(* Properties of the stream supervisor                                      *)
(***************************************************************************)
\* run() of the thread of stream s has returned
Ended(s) == tpc[s] \in {"failed", "done"}

\* C15: a stream thread spawns odr-audioenc at most FailLimit times; when the
\* loop ends on the failcounter with _running set, the thread ends declaring
\* the stream failed; and once the thread has ended the encoder of the stream
\* is not spawned again except by a new thread that start() or setcfg() makes.
C15_AtMostFourSpawns ==
    [][\A s \in StreamNames :
          /\ spawns'[s] <= FailLimit
          /\ (tpc[s] = "loop" /\ tpc'[s] /= "loop" /\ trunning[s]
                  /\ failcounter[s] >= FailLimit)
              => tpc'[s] = "failed"
          /\ (Ended(s) /\ Ended(s)')
              => (spawns'[s] = spawns[s] /\ audio'[s] /= "alive")
          /\ (Ended(s) /\ ~Ended(s)')
              => (mpc = "setcfg" \/ (mpc = "idle" /\ streams = <<>>))]_vars

\* a stream thread has ended after FailLimit spawns, declaring the failure
C15_Witness ==
    \E s \in StreamNames :
        tpc[s] = "failed" /\ spawns[s] = FailLimit /\ failcounter[s] = FailLimit

\* the process is running (SIGTERM sent or not)
Running(p) == p \in {"alive", "termed"}

\* C16: when setcfg(stream) with the default configuration returns, the
\* stream runs with the configuration of its streams.ini section, and the
\* stored configuration is the one that was loaded.
C16_DefaultRestoresOriginal ==
    [][\A s \in StreamNames :
          (mpc = "setcfg" /\ mpc' = "idle" /\ mstream = s
              /\ mnewcfg = streamscfg[s])
          => /\ is_alive(s)'
             /\ streamcfg'[s] = StreamsIni(s)
             /\ streamscfg' = [n \in StreamNames |-> StreamsIni(n)]]_vars

\* C17: during stop(), the FIFO of a stream is removed only when neither of
\* its processes is running any more, and odr-audioenc is sent SIGTERM only
\* when odr-padenc is no longer running.
C17_StopOrder ==
    [][(mpc = "stop" \/ mpc' = "stop")
        => \A k \in 1..Len(streams) :
               LET s == streams[k].name
               IN  /\ (streams[k].out \in fifos /\ streams[k].out \notin fifos')
                       => (~Running(audio[s]) /\ ~Running(pad[s]))
                   /\ (audio[s] = "alive" /\ audio'[s] = "termed")
                       => ~Running(pad[s])]_vars

\* C18: a process that is still running when the 5 s wait after its SIGTERM
\* times out (odr-audioenc in join, odr-padenc in run) is killed.
C18_TimeoutKills ==
    [][/\ (jpc = "wait" /\ jpc' = "super" /\ Running(audio[mstream]))
           => ~Running(audio'[mstream])
       /\ \A s \in StreamNames :
              (tpc[s] = "comm" /\ tpc'[s] /= "comm") => ~Running(pad'[s])]_vars

\* C19: for a stream thread whose configuration enables DLS or MOT, whenever
\* its odr-audioenc is running its odr-padenc is running too.
C19_PadAliveWithAudio ==
    \A s \in StreamNames :
        (/\ tpc[s] /= "none"
         /\ getboolean(streamcfg[s].dls_enable)
                \/ getboolean(streamcfg[s].mot_enable)
         /\ Running(audio[s]))
            => Running(pad[s])

\* C20: no two supervised streams have the same FIFO, and every FIFO that
\* exists is the FIFO of a stream in self.streams (so that stop() removes it).
C20_FifosDistinctAndTracked ==
    /\ \A j, k \in 1..Len(streams) :
           j /= k => streams[j].out /= streams[k].out
    /\ \A f \in fifos : \E k \in 1..Len(streams) : streams[k].out = f

(***************************************************************************)
(* The mux control channel: utils.mux_send on the shared zmq.REQ socket     *)
(***************************************************************************)
\* what odr-dabmux answers to a ping or to a command
Replies == {"ok", "error"}

\* sock.send(frame, flags) on a REQ socket that accepts it: a request of
\* which no frame or only frames with SNDMORE have been sent
SockSend(c, frame, more) ==
    /\ sock /= "awaiting"
    /\ sock' = IF more THEN "partial" ELSE "awaiting"
    /\ wire' = Append(wire, <<"send", c, frame, more>>)

\* sock.recv_multipart() returning: odr-dabmux has answered the request
SockRecv(c, reply) ==
    /\ sock = "awaiting"
    /\ muxUp
    /\ sock' = "ready"
    /\ wire' = Append(wire, <<"recv", c, reply, FALSE>>)

\* a thread calls utils.mux_send(dabsrv.zmqsock, msgs)
MuxCall(c, msgs) ==
    /\ cpc[c] = "idle"
    /\ ncalls < MaxCalls
    /\ ncalls' = ncalls + 1
    /\ cpc' = [cpc EXCEPT ![c] = "ping"]
    /\ cmsg' = [cmsg EXCEPT ![c] = msgs]
    /\ cidx' = [cidx EXCEPT ![c] = 1]
    /\ cres' = [cres EXCEPT ![c] = "none"]
    /\ UNCHANGED <<sock, wire, muxUp>>
    /\ UNCHANGED outsideSock

\* sock.send(b'ping')
SendPing(c) ==
    /\ cpc[c] = "ping"
    /\ SockSend(c, "ping", FALSE)
    /\ cpc' = [cpc EXCEPT ![c] = "recv_ping"]
    /\ UNCHANGED <<cmsg, cidx, cres, muxUp, ncalls>>
    /\ UNCHANGED outsideSock

\* data = sock.recv_multipart() after the ping; anything but 'ok': return None
RecvPing(c, reply) ==
    /\ cpc[c] = "recv_ping"
    /\ SockRecv(c, reply)
    /\ cpc' = [cpc EXCEPT ![c] = IF reply = "ok" THEN "cmd" ELSE "idle"]
    /\ cres' = [cres EXCEPT ![c] = IF reply = "ok" THEN @ ELSE "None"]
    /\ UNCHANGED <<cmsg, cidx, muxUp, ncalls>>
    /\ UNCHANGED outsideSock

\* sock.send(part.encode(), flags=f): zmq.SNDMORE on all parts but the last
SendPart(c) ==
    /\ cpc[c] = "cmd"
    /\ LET last == cidx[c] = Len(cmsg[c])
       IN  /\ SockSend(c, cmsg[c][cidx[c]], ~last)
           /\ cpc' = [cpc EXCEPT ![c] = IF last THEN "recv_cmd" ELSE @]
           /\ cidx' = [cidx EXCEPT ![c] = IF last THEN @ ELSE @ + 1]
    /\ UNCHANGED <<cmsg, cres, muxUp, ncalls>>
    /\ UNCHANGED outsideSock

\* data = sock.recv_multipart() after the command; the parts are returned
RecvReply(c, reply) ==
    /\ cpc[c] = "recv_cmd"
    /\ SockRecv(c, reply)
    /\ cpc' = [cpc EXCEPT ![c] = "idle"]
    /\ cres' = [cres EXCEPT ![c] = reply]
    /\ UNCHANGED <<cmsg, cidx, muxUp, ncalls>>
    /\ UNCHANGED outsideSock

\* sock.send on a REQ socket whose request is awaiting its reply (the other
\* thread's): pyzmq raises ZMQError (EFSM), which mux_send does not catch
SendRaises(c) ==
    /\ cpc[c] \in {"ping", "cmd"}
    /\ sock = "awaiting"
    /\ cpc' = [cpc EXCEPT ![c] = "raised"]
    /\ UNCHANGED <<cmsg, cidx, cres, sock, wire, muxUp, ncalls>>
    /\ UNCHANGED outsideSock

\* two threads inside calls on the one socket, which is not thread-safe:
\* libzmq may abort the process
ConcurrentUseAborts ==
    /\ \A c \in Callers : cpc[c] \notin {"idle", "raised", "aborted"}
    /\ cpc' = [c \in Callers |-> "aborted"]
    /\ UNCHANGED <<cmsg, cidx, cres, sock, wire, muxUp, ncalls>>
    /\ UNCHANGED outsideSock

\* odr-dabmux stops answering (it hangs, or it has exited)
MuxGoesSilent ==
    /\ muxUp
    /\ muxUp' = FALSE
    /\ UNCHANGED <<cpc, cmsg, cidx, cres, sock, wire, ncalls>>
    /\ UNCHANGED outsideSock

\* the steps of the thread c inside mux_send
CallerNext(c) ==
    \/ SendPing(c)
    \/ \E r \in Replies : RecvPing(c, r)
    \/ SendPart(c)
    \/ \E r \in Replies : RecvReply(c, r)
    \/ SendRaises(c)

NextMux ==
    \/ \E c \in Callers : \E m \in Commands(c) : MuxCall(c, m)
    \/ \E c \in Callers : SendPing(c)
    \/ \E c \in Callers, r \in Replies : RecvPing(c, r)
    \/ \E c \in Callers : SendPart(c)
    \/ \E c \in Callers, r \in Replies : RecvReply(c, r)
    \/ \E c \in Callers : SendRaises(c)
    \/ ConcurrentUseAborts
    \/ MuxGoesSilent

\* the mux control channel under the default [warning] configuration
SpecMux == InitStreams /\ [][NextMux]_vars

(***************************************************************************)
(* Properties of the mux control channel                                    *)
(***************************************************************************)
\* the step is a sock.send that thread c attempts
SendAttempt(c) ==
    /\ cpc[c] \in {"ping", "cmd"}
    /\ cpc'[c] /= "aborted"
    /\ <<cpc'[c], cidx'[c]>> /= <<cpc[c], cidx[c]>>

\* thread c is between the ping it has sent and the end of its mux_send
InExchange(c) == cpc[c] \in {"recv_ping", "cmd", "recv_cmd"}

\* C21: a thread sends on the socket only while no other thread is inside an
\* exchange on it, and no send finds the reply to an earlier send outstanding.
C21_OneOutstandingRequest ==
    [][\A c \in Callers :
          SendAttempt(c)
              => /\ \A d \in Callers \ {c} : ~InExchange(d)
                 /\ sock /= "awaiting"]_vars

\* C22: on the socket, the first frame of every command comes directly after
\* the receive of an 'ok' by the same call, which comes directly after that
\* call's ping; and every receive comes directly after a send that ended a
\* message.
C22_PingThenCommand ==
    \A i \in 1..Len(wire) :
           /\ (/\ wire[i][1] = "send"
               /\ wire[i][3] /= "ping"
               /\ (i = 1 \/ wire[i - 1][1] = "recv" \/ ~wire[i - 1][4]))
                  => /\ i > 2
                     /\ wire[i - 1] = <<"recv", wire[i][2], "ok", FALSE>>
                     /\ wire[i - 2] = <<"send", wire[i][2], "ping", FALSE>>
           /\ wire[i][1] = "recv"
                  => (i > 1 /\ wire[i - 1][1] = "send" /\ ~wire[i - 1][4])

\* C23: a thread that waits in recv_multipart for an odr-dabmux that does not
\* answer has a step to take: the call gives up and returns.
C23_SendAlwaysReturns ==
    \A c \in Callers :
        (cpc[c] \in {"recv_ping", "recv_cmd"} /\ ~muxUp) => ENABLED CallerNext(c)

(***************************************************************************)
(* The shutdown sequence of main()                                          *)
(***************************************************************************)
\* the step of main() from position a to position b
MainStep(a, b) ==
    /\ mainpc = a
    /\ mainpc' = b
    /\ UNCHANGED watcherVars
    /\ UNCHANGED outsideMain

\* capsrv.stop(): CAPHTTP.join shuts the werkzeug server down and joins its
\* thread, which ends when no request is being handled
StopCAP == hpc = "idle" /\ MainStep("menu", "cap_stopped")

\* q.join(): every item put on the queue has been taken and task_done
QJoin == unfinished = 0 /\ MainStep("cap_stopped", "q_joined")

\* dabstreams.stop(): the FIFOs are removed and the stream threads joined
StopStreams == MainStep("q_joined", "streams_stopped")

\* dabsrv.stop(): the ZMQ socket is disconnected and its FIFO removed
DisconnectMux == MainStep("streams_stopped", "zmq_closed")

\* dabsrv.stop(): self._odr.join() ends odr-dabmod and odr-dabmux
JoinODR == MainStep("zmq_closed", "odr_joined")

\* dabsrv.stop(): self._watcher.join(), up to super().join()
JoinWatcher == mainpc = "odr_joined" /\ Join

\* dabsrv.stop(): self._watcher.join() returns: run() has ended (or the
\* thread was not alive when join was called)
WatcherJoined ==
    /\ pc \in {"stopped", "dead"}
    /\ MainStep("odr_joined", "done")

\* a request arrives while the CAP HTTP server is up
MainPost(e) == mainpc = "menu" /\ Post(e)

NextMain ==
    \/ Tick
    \/ \E e \in Events : MainPost(e)
    \/ PutResume
    \/ WatcherNext
    \/ LoopExit
    \/ EdgeBreak
    \/ StopCAP
    \/ QJoin
    \/ StopStreams
    \/ DisconnectMux
    \/ JoinODR
    \/ JoinWatcher
    \/ WatcherJoined

\* the server from its start to the end of main()
SpecMain == Init /\ [][NextMain]_vars

\* C24: the watcher performs a switchover (mux commands, stream replacement
\* or restore) only while main() has stopped neither the stream supervisor
\* nor the connection to the multiplexer.
C24_NoSwitchoverAfterStop ==
    [][(WatcherStep("edge") /\ pc' = "sweep")
        => mainpc \in {"menu", "cap_stopped", "q_joined"}]_vars

-----------------------------------------------------------------------------
\* The CAP intake: CAPParser.parse, CAPServer._index and the acknowledgement.

\* [cap] identifier of the configuration: the prefix of an acknowledgement
Prefix == "cap"

\* the values of <status> the requests carry
CAPStatus == {"Actual", "Test", "Exercise"}

\* <effective> and <expires> of the requests: any two well-formed timestamps
RawValidity == Validity \cup {<<2, 1>>, <<1, 1>>}

\* the CAP messages posted: well-formed, with every required element
Requests ==
    {[msgType |-> "Alert", status |-> st, identifier |-> "A", validity |-> v,
      references |-> <<>>] : st \in CAPStatus, v \in RawValidity}
    \cup {[msgType |-> "Cancel", status |-> "Actual", identifier |-> "C",
           validity |-> <<0, 0>>, references |-> <<Ref("A")>>]}

\* every timestamp of the requests has the format get_datetime accepts:
\* __check_info_elements tests that and nothing else of <effective>/<expires>
check_info_elements(m) == m.validity[1] \in Nat /\ m.validity[2] \in Nat

\* a link test read as an alert
parse_TestAsAlert(m) ==
    IF m.msgType = "Alert"
    THEN IF m.status \in {"Test", "Actual"} THEN "Alert" ELSE "None"
    ELSE IF m.msgType = "Cancel" THEN "Cancel" ELSE "None"

\* CAPParser.parse: the msg_type it leaves in the parser
parse(m) ==
    IF m.msgType = "Alert"
    THEN IF m.status = "Test" THEN "LinkTest"
         ELSE IF m.status = "Actual" /\ check_info_elements(m) THEN "Alert"
         ELSE "None"
    ELSE IF m.msgType = "Cancel" THEN "Cancel" ELSE "None"

\* the dictionary _index puts on the queue
Dict(m) ==
    IF m.msgType = "Alert" THEN AlertEvent(m.identifier, m.validity)
    ELSE CancelEvent(m.references)

\* the counter is read and left as it is
generate_response_NoIncrement(prefix, counter) ==
    [identifier |-> <<prefix, counter>>, counter |-> counter]

\* CAPParser.generate_response: f'{self.src_identifier}.{msg_counter}', then
\* msg_counter += 1
generate_response(prefix, counter) ==
    [identifier |-> <<prefix, counter>>, counter |-> counter + 1]

\* the tail of _index: the acknowledgement and the 200
Ack(req) ==
    LET r == generate_response(Prefix, msg_counter)
    IN  /\ resp' = [status |-> 200, req |-> req, ack |-> r.identifier]
        /\ msg_counter' = r.counter
        /\ acks' = Append(acks, r.identifier)
        /\ cap' = cap

\* CAPServer._index on the request m
Index(m) ==
    /\ hpc = "idle"
    /\ posts < MaxPosts
    /\ posts' = posts + 1
    /\ LET t == parse(m)
           req == <<m.msgType, m.status>>
       IN  CASE t = "LinkTest" -> Ack(req) /\ UNCHANGED <<q, unfinished, hpc, hev>>
             [] t \in {"Alert", "Cancel"} ->
                    IF Len(q) < queuelimit
                    THEN /\ q' = Append(q, Dict(m))
                         /\ unfinished' = unfinished + 1
                         /\ Ack(req)
                         /\ UNCHANGED <<hpc, hev>>
                    ELSE /\ hpc' = "put"
                         /\ hev' = Dict(m)
                         /\ UNCHANGED <<q, unfinished, ackVars>>
             [] OTHER ->
                    /\ resp' = [status |-> 400, req |-> req, ack |-> -1]
                    /\ UNCHANGED <<q, unfinished, hpc, hev, msg_counter, acks, cap>>
    /\ UNCHANGED <<cfg, now, pc, running, announcements, future_announcements,
                   changed, muxAnn, label, input, ttsStr, issued, logged>>
    /\ UNCHANGED outsideIntake

\* the blocked q.put of _index returns, and _index acknowledges (what is put
\* came from a Cancel or from an Alert of status Actual)
IndexPutReturns ==
    /\ hpc = "put"
    /\ Len(q) < queuelimit
    /\ q' = Append(q, hev)
    /\ unfinished' = unfinished + 1
    /\ hpc' = "idle"
    /\ hev' = NoEvent
    /\ Ack(<<hev.msg_type, "Actual">>)
    /\ UNCHANGED <<cfg, now, posts, pc, running, announcements,
                   future_announcements, changed, muxAnn, label, input, ttsStr,
                   issued, logged>>
    /\ UNCHANGED outsideIntake

\* CAPServer.restart: the CAPHTTP thread is joined (its server handles one
\* request at a time, so no request is in flight) and a new one is started
CAPRestart ==
    /\ hpc = "idle"
    /\ cap < MaxOps
    /\ cap' = cap + 1
    /\ UNCHANGED <<msg_counter, resp, acks>>
    /\ UNCHANGED watcherVars
    /\ UNCHANGED outsideIntake

NextIntake ==
    \/ \E m \in Requests : Index(m)
    \/ IndexPutReturns
    \/ CAPRestart
    \/ WatcherNext

SpecIntake == Init /\ [][NextIntake]_vars

\* _index has answered a link test in this step
LinkTestAnswered == posts' = posts + 1 /\ resp'.req = <<"Alert", "Test">>

\* C25: a POST with msgType=Alert and status=Test is answered with a 200 Ack
\* and changes nothing else: the queue, the active and the pending list, the
\* mux commands issued and the streams are as they were.
C25_LinkTestChangesNothing ==
    [][LinkTestAnswered
        => /\ resp'.status = 200
           /\ Len(acks') = Len(acks) + 1
           /\ UNCHANGED <<q, hev, announcements, future_announcements, changed,
                          muxAnn, label, input, ttsStr, issued, logged>>
           /\ UNCHANGED <<streamVars, sockVars>>]_vars

C25_Witness ==
    /\ resp.req = <<"Alert", "Test">>
    /\ resp.status = 200
    /\ announcements /= <<>>

\* C26: the acknowledgements carry <prefix>.<counter> with a counter that
\* strictly increases: no two of them carry the same identifier, restarts of
\* the CAP server included.
C26_AckIdentifiersIncrease ==
    /\ \A i \in 1..Len(acks) : acks[i][1] = Prefix /\ acks[i][2] < msg_counter
    /\ \A i, j \in 1..Len(acks) : i < j => acks[i][2] < acks[j][2]

C26_Witness == Len(acks) >= 3 /\ cap >= 1

\* C27: every Alert the parser accepts and _index hands to the watcher has
\* expires strictly later than effective.
C27_ExpiresAfterEffective ==
    \A k \in 1..Len(q) :
        q[k].msg_type = "Alert" => q[k].expires > q[k].effective

-----------------------------------------------------------------------------
\* The data stream: dab/data.py, MSC data groups split into DAB packets.
\* A byte is a number in 0..255, a bytes object a sequence of them.

MaxGroups == 18
MaxBuilds == 3

\* ^ and | on one hexadecimal digit
NibXor ==
    [a \in 0..15 |-> [b \in 0..15 |->
        ((a + b) % 2)
        + 2 * (((a \div 2) + (b \div 2)) % 2)
        + 4 * (((a \div 4) + (b \div 4)) % 2)
        + 8 * (((a \div 8) + (b \div 8)) % 2)]]

NibOr ==
    [a \in 0..15 |-> [b \in 0..15 |-> a + b - (a + b - NibXor[a][b]) \div 2]]

\* a ^ b and a | b for 0 <= a, b < 2^16
Xor(a, b) ==
    NibXor[a % 16][b % 16]
    + 16 * NibXor[(a \div 16) % 16][(b \div 16) % 16]
    + 256 * NibXor[(a \div 256) % 16][(b \div 256) % 16]
    + 4096 * NibXor[(a \div 4096) % 16][(b \div 4096) % 16]

Or(a, b) ==
    NibOr[a % 16][b % 16]
    + 16 * NibOr[(a \div 16) % 16][(b \div 16) % 16]
    + 256 * NibOr[(a \div 256) % 16][(b \div 256) % 16]
    + 4096 * NibOr[(a \div 4096) % 16][(b \div 4096) % 16]

\* the body of the loop of _crc16 for the byte e
crc_step(crc, e) ==
    LET x0 == Xor(crc \div 256, e)
        x  == Xor(x0, x0 \div 16)
    IN  Xor(Xor(Xor((crc * 256) % 65536, (x * 4096) % 65536),
                (x * 32) % 65536),
            x % 65536)

\* "for e in data" over data[lo..hi], the bytes taken in their order
RECURSIVE crc_loop(_, _, _, _)
crc_loop(data, lo, hi, crc) ==
    IF lo > hi \/ crc \notin 0..65535 THEN crc
    ELSE IF lo = hi THEN crc_step(crc, data[lo])
    ELSE LET mid == (lo + hi) \div 2
         IN  crc_loop(data, mid + 1, hi, crc_loop(data, lo, mid, crc))

\* the two bytes in little-endian order
crc16_LittleEndian(data) ==
    LET crc == 65535 - crc_loop(data, 1, Len(data), 65535)
    IN  <<crc % 256, crc \div 256>>

\* _crc16: crc = 0xFFFF, the loop, ~crc & 0xFFFF, struct.pack('!H', crc)
crc16(data) ==
    LET crc == 65535 - crc_loop(data, 1, Len(data), 65535)
    IN  <<crc \div 256, crc % 256>>

\* MSCDataGroupBuilder._build_header
MSC_build_header(coni, rep) ==
    LET byte0 == Or(Or(Or(0, 64), 0), 0)
        byte1 == Or(Or(0, coni * 16), rep)
    IN  <<byte0, byte1>>

\* the continuity index moves on every call
MSC_build_Always(st, data) ==
    LET c == (st.coni + 1) % 16
        packet == MSC_build_header(c, 0) \o data
    IN  [last_data |-> data, coni |-> c, repi |-> 0,
         out |-> packet \o crc16(packet)]

\* MSCDataGroupBuilder.build on the builder st
MSC_build(st, data) ==
    LET differs == st.last_data = NoData \/ st.last_data /= data
        c == IF differs THEN (st.coni + 1) % 16 ELSE st.coni
        r == IF differs THEN 0
             ELSE IF st.repi > 0 THEN st.repi - 1 ELSE 0
        packet == MSC_build_header(c, r) \o data
    IN  [last_data |-> data, coni |-> c, repi |-> r,
         out |-> packet \o crc16(packet)]

PACKET_LENGTH == <<24, 48, 72, 96>>
PACKET_DATA_LENGTH == [k \in 1..4 |-> PACKET_LENGTH[k] - 5]

\* PacketBuilder(1000): self.address = packet_address & 0xFFFF
address == 1000 % 65536

\* PacketBuilder._build_header, the header only
Packet_build_header(fl, coni, packet_length, data_length) ==
    LET len == IF packet_length = PACKET_LENGTH[4] THEN 3 * 64
               ELSE IF packet_length = PACKET_LENGTH[3] THEN 2 * 64
               ELSE IF packet_length = PACKET_LENGTH[2] THEN 1 * 64
               ELSE 0
        byte0 == Or(Or(Or(len, coni * 16), fl * 4), (address \div 256) % 4)
        byte1 == address % 256
        byte2 == Or(0, data_length)
    IN  <<byte0, byte1, byte2>>

\* PacketBuilder._build_packet, the packet only
Packet_build_packet(fl, coni, data, packet_length, data_length) ==
    LET padding_length == packet_length - 5 - data_length
        packet == Packet_build_header(fl, coni, packet_length, data_length)
                  \o data \o [k \in 1..padding_length |-> 0]
    IN  packet \o crc16(packet)

\* first_last never leaves 10
first_last_split_Stuck(fl) == IF fl \in {1, 3} THEN 2 ELSE fl

\* build: first_last before a packet that is not the last of its group
first_last_split(fl) ==
    IF fl = 1 \/ fl = 3 THEN 2 ELSE IF fl = 2 THEN 0 ELSE fl

\* build: first_last before the last packet of a group
first_last_final(fl) == IF fl = 0 \/ fl = 2 THEN 1 ELSE 3

\* always the largest packet
packet_index_Largest(data_length) == 2

\* build: the i at which "for i in reversed(range(-1, 4))" stops
packet_index(data_length) ==
    LET stops == {i \in -1..3 :
                    i < 0 \/ data_length > PACKET_DATA_LENGTH[i + 1]}
    IN  CHOOSE i \in stops : \A j \in stops : j <= i

\* PacketBuilder.build on the builder (fl, coni)
RECURSIVE Packet_build(_, _, _)
Packet_build(fl, coni, data) ==
    LET data_length == Len(data)
        i == packet_index(data_length)
    IN  IF i = 3
        THEN LET f == first_last_split(fl)
                 first_packet ==
                     Packet_build_packet(f, coni,
                         SubSeq(data, 1, PACKET_DATA_LENGTH[i + 1]),
                         PACKET_LENGTH[i + 1], PACKET_DATA_LENGTH[i + 1])
                 other ==
                     Packet_build(f, (coni + 1) % 4,
                         SubSeq(data, PACKET_DATA_LENGTH[i + 1] + 1, data_length))
             IN  [first_last |-> other.first_last, coni |-> other.coni,
                  out |-> first_packet \o other.out]
        ELSE LET f == first_last_final(fl)
             IN  [first_last |-> f, coni |-> (coni + 1) % 4,
                  out |-> Packet_build_packet(f, coni, data,
                              PACKET_LENGTH[i + 2], data_length)]

\* a bytes object of length n
Payload(n) == [k \in 1..n |-> (7 * k + n) % 256]

\* what the builders are given
GroupInputs == {Payload(1), Payload(2)}
PacketInputs == {Payload(n) : n \in {0, 19, 20, 67, 91, 92, 183}}
Indata == {Payload(1), Payload(100)}

\* group_builder.build(data)
GroupBuild(data) ==
    /\ gcalls < MaxGroups
    /\ LET r == MSC_build([last_data |-> last_data, coni |-> gconi,
                           repi |-> repi], data)
       IN  /\ last_data' = r.last_data
           /\ gconi' = r.coni
           /\ repi' = r.repi
           /\ group' = r.out
    /\ gcalls' = gcalls + 1
    /\ changes' = IF last_data /= data THEN changes + 1 ELSE changes
    /\ UNCHANGED packetVars
    /\ UNCHANGED outsideData

\* packet_builder.build(data)
PacketBuild(data) ==
    /\ pcalls < MaxBuilds
    /\ LET r == Packet_build(first_last, pconi, data)
       IN  /\ first_last' = r.first_last
           /\ pconi' = r.coni
           /\ packets' = r.out
    /\ pdata' = data
    /\ prevpackets' = packets
    /\ pcalls' = pcalls + 1
    /\ UNCHANGED groupVars
    /\ UNCHANGED outsideData

\* DABDataStream.run: one block read from the input, framed and written
RunStep(indata) ==
    /\ pcalls < MaxBuilds
    /\ gcalls < MaxGroups
    /\ LET g == MSC_build([last_data |-> last_data, coni |-> gconi,
                           repi |-> repi], indata)
           r == Packet_build(first_last, pconi, g.out)
       IN  /\ last_data' = g.last_data
           /\ gconi' = g.coni
           /\ repi' = g.repi
           /\ group' = g.out
           /\ first_last' = r.first_last
           /\ pconi' = r.coni
           /\ pdata' = g.out
           /\ packets' = r.out
    /\ gcalls' = gcalls + 1
    /\ changes' = IF last_data /= indata THEN changes + 1 ELSE changes
    /\ prevpackets' = packets
    /\ pcalls' = pcalls + 1
    /\ UNCHANGED outsideData

NextGroups == \E data \in GroupInputs : GroupBuild(data)

SpecGroups == InitStreams /\ [][NextGroups]_vars

NextPackets ==
    \/ \E data \in PacketInputs : PacketBuild(data)
    \/ \E indata \in Indata : RunStep(indata)

SpecPackets == InitStreams /\ [][NextPackets]_vars

\* the fields of the header of an MSC data group
GroupConi(g) == g[2] \div 16
GroupRepi(g) == g[2] % 16

\* C28: on a fresh builder the N-th payload that differs from the one before
\* it gets continuity index N-1 modulo 16, a payload equal to the one before
\* it keeps the continuity index; the repetition index is 0 after a changed
\* payload and never increases.
C28_ContinuityFollowsChanges ==
    [][gcalls' = gcalls + 1
        => /\ GroupConi(group') = (changes' - 1) % 16
           /\ changes' = changes + 1 => GroupRepi(group') = 0
           /\ (changes' = changes /\ gcalls > 0)
                => /\ GroupConi(group') = GroupConi(group)
                   /\ GroupRepi(group') <= GroupRepi(group)]_vars

C28_Witness == gcalls = 18 /\ changes = 17 /\ GroupConi(group) = 0

\* the fields of the header of a packet
PacketLength(p) == PACKET_LENGTH[(p[1] \div 64) + 1]
PacketConi(p) == (p[1] \div 16) % 4
FirstLast(p) == (p[1] \div 4) % 4
UsefulLength(p) == p[3] % 128
UsefulData(p) == SubSeq(p, 4, 3 + UsefulLength(p))

\* a byte stream cut into packets by the length each header announces
RECURSIVE Split(_)
Split(bytes) ==
    IF bytes = <<>> THEN <<>>
    ELSE <<SubSeq(bytes, 1, PacketLength(bytes))>>
         \o Split(SubSeq(bytes, PacketLength(bytes) + 1, Len(bytes)))

\* C29: the packets of one build() carry first/last 11 when the group fits in
\* one packet, otherwise 10, then 00 on every middle packet, then 01; the
\* continuity index goes up by 1 modulo 4 from each packet to the next, from
\* the last packet of one build() to the first of the next included.
C29_FirstLastAndContinuity ==
    pcalls > 0 =>
        LET ps == Split(packets)
            n == Len(ps)
            before == Split(prevpackets)
        IN  /\ Len(pdata) <= 91 => n = 1 /\ FirstLast(ps[1]) = 3
            /\ Len(pdata) > 91
                 => /\ n > 1
                    /\ FirstLast(ps[1]) = 2
                    /\ \A k \in 2..(n - 1) : FirstLast(ps[k]) = 0
                    /\ FirstLast(ps[n]) = 1
            /\ \A k \in 1..(n - 1) :
                 PacketConi(ps[k + 1]) = (PacketConi(ps[k]) + 1) % 4
            /\ pcalls > 1
                 => PacketConi(ps[1])
                      = (PacketConi(before[Len(before)]) + 1) % 4

C29_Witness ==
    /\ pcalls = 3
    /\ Len(Split(packets)) = 3
    /\ Len(Split(prevpackets)) = 3

\* the smallest of the four packet sizes whose capacity holds n bytes
Smallest(n) ==
    CHOOSE sz \in {24, 48, 72, 96} :
        /\ sz - 5 >= n
        /\ \A t \in {24, 48, 72, 96} : t - 5 >= n => sz <= t

\* C30: build() splits its input losslessly: every packet but the last is a
\* 96-byte packet with the next 91 bytes, the last one has the smallest size
\* that holds the remainder, every useful-data-length is the number of input
\* bytes carried, and the useful data in order is the input.
C30_LosslessSplit ==
    pcalls > 0 =>
        LET ps == Split(packets)
            n == Len(ps)
            L == Len(pdata)
            lo(k) == 91 * (k - 1) + 1
            hi(k) == IF 91 * k < L THEN 91 * k ELSE L
        IN  /\ n = IF L = 0 THEN 1 ELSE (L + 90) \div 91
            /\ \A k \in 1..n :
                 /\ UsefulLength(ps[k]) = hi(k) - lo(k) + 1
                 /\ UsefulData(ps[k]) = SubSeq(pdata, lo(k), hi(k))
                 /\ Len(ps[k]) = IF k < n THEN 96 ELSE Smallest(hi(k) - lo(k) + 1)

C30_Witness ==
    /\ Len(pdata) = 183
    /\ Len(packets) = 96 + 96 + 24
    /\ prevpackets /= <<>>

\* the bit-by-bit CRC-16: polynomial 0x1021, MSB first
RECURSIVE RefBits(_, _)
RefBits(crc, n) ==
    IF n = 0 THEN crc
    ELSE RefBits(IF crc >= 32768 THEN Xor((crc * 2) % 65536, 4129)
                 ELSE (crc * 2) % 65536,
                 n - 1)

RECURSIVE RefLoop(_, _, _, _)
RefLoop(data, lo, hi, crc) ==
    IF lo > hi \/ crc \notin 0..65535 THEN crc
    ELSE IF lo = hi THEN RefBits(Xor(crc, data[lo] * 256), 8)
    ELSE LET mid == (lo + hi) \div 2
         IN  RefLoop(data, mid + 1, hi, RefLoop(data, lo, mid, crc))

\* initial value 0xFFFF, result complemented, most significant byte first
RefCrc(data) ==
    LET crc == 65535 - RefLoop(data, 1, Len(data), 65535)
    IN  <<crc \div 256, crc % 256>>

\* the last two bytes of b are the reference CRC of the bytes before them
EndsWithCrc(b) ==
    /\ Len(b) >= 2
    /\ SubSeq(b, Len(b) - 1, Len(b)) = RefCrc(SubSeq(b, 1, Len(b) - 2))

\* C31: every packet and every MSC data group ends with the big-endian CRC-16
\* (0x1021, initial 0xFFFF, MSB first, complemented) of all its preceding
\* bytes, the padding of a packet included; _crc16 agrees with the bit-by-bit
\* CRC on the inputs it is given.
C31_CrcAppended ==
    /\ \A k \in 1..Len(Split(packets)) : EndsWithCrc(Split(packets)[k])
    /\ group /= <<>> => EndsWithCrc(group)
    /\ crc16(pdata) = RefCrc(pdata)

C31_Witness ==
    /\ group /= <<>>
    /\ Len(Split(packets)) = 2
    /\ UsefulLength(Split(packets)[2]) < Len(Split(packets)[2]) - 5

-----------------------------------------------------------------------------
\* The watcher again: expiry, the edge test and the queue at shutdown.

\* C32: after the expiry sweep of a tick no alert left in announcements has
\* expires <= now, however many expire in the same tick and wherever they sit
\* in the list.
C32_SweepLeavesNoExpired ==
    [][(WatcherStep("sweep") /\ pc' = "data")
        => \A k \in 1..Len(announcements') : announcements'[k].expires > now]_vars

\* every alert of list l expires after t
AllLive(l, t) == \A k \in 1..Len(l) : l[k].expires > t

\* C33: an alert leaves whichever list holds it once expires <= now: the sweep
\* leaves no expired alert in future_announcements either, so that no alert is
\* promoted to announcements (and handed to the Warning action) after it has
\* expired.
C33_ExpiredLeavesBothLists ==
    [][/\ (WatcherStep("sweep") /\ pc' = "data")
            => AllLive(future_announcements', now)
       /\ WatcherStep("promote")
            => AllLive(SubSeq(announcements', Len(announcements) + 1,
                              Len(announcements')), now)]_vars

\* nothing of a warning is on air: no announcement active, the original
\* label, every stream on its original input
BroadcastQuiet ==
    /\ \A n \in AnnouncementNames : muxAnn[n] = 0
    /\ label = "original"
    /\ \A s \in StreamNames : input[s] = "original"

\* C34: the switchover acts only when the desired state differs from what is
\* on air: with no active alert and the broadcast already Quiet, no mux
\* command is sent and no stream is restarted, for example after a Cancel
\* that removed a pending alert.
C34_NoQuietWhileQuiet ==
    [][(WatcherStep("edge") /\ pc' = "sweep" /\ announcements = <<>>
            /\ BroadcastQuiet)
        => issued' = issued]_vars

-----------------------------------------------------------------------------
\* The stream supervisor again.

\* C37: when setcfg returns, whether or not the new thread could be started,
\* the stream is registered at the position it had and with the FIFO it had,
\* and the entry of no other stream has changed.
C37_SetcfgKeepsTheStream ==
    [][(mpc = "setcfg" /\ mpc' = "idle")
        => LET i == IndexOf(streams, mstream)
           IN  /\ Len(streams') = Len(streams)
               /\ IndexOf(streams', mstream) = i
               /\ streams'[i].out = streams[i].out
               /\ \A j \in 1..Len(streams) : j /= i => streams'[j] = streams[j]]_vars

\* C38: stopping a stream thread leaves no encoder behind: while join() waits
\* for run() to end no odr-audioenc of the stream runs that was not told to
\* terminate, and once run() has ended neither odr-audioenc nor odr-padenc of
\* the stream is alive.
C38_JoinLeavesNoEncoder ==
    /\ jpc = "super" => audio[mstream] /= "alive"
    /\ Joined => /\ audio[mstream] \notin {"alive", "termed"}
                 /\ pad[mstream] \notin {"alive", "termed"}

\* odr-audioenc of stream s gets past its start and encodes
AudioRunsOn(s) ==
    /\ audio[s] = "alive"
    /\ ran[s] /= spawns[s]
    /\ ran' = [ran EXCEPT ![s] = spawns[s]]
    /\ UNCHANGED <<leftpads, streamVars>>
    /\ UNCHANGED outsideSup

\* an odr-padenc that was left alive exits
LeftPadExits(s) ==
    /\ leftpads[s] > 0
    /\ leftpads' = [leftpads EXCEPT ![s] = @ - 1]
    /\ UNCHANGED <<ran, streamVars>>
    /\ UNCHANGED outsideSup

NextEncoders ==
    \/ NextStreams
    \/ \E s \in StreamNames : AudioRunsOn(s)
    \/ \E s \in StreamNames : LeftPadExits(s)

SpecEncoders == InitStreams /\ [][NextEncoders]_vars

\* C35: only failed starts count toward the limit: when the encoder that has
\* just exited had run normally, the thread, still running, spawns it again,
\* however many exits there were before.
C35_NormalExitIsRestarted ==
    [][\A s \in StreamNames :
          (tpc[s] = "loop" /\ tpc'[s] /= "loop" /\ trunning[s]
              /\ spawns[s] > 0 /\ ran[s] = spawns[s])
          => tpc'[s] = "spawn"]_vars

\* the odr-padenc processes of stream s that are alive
PadsAlive(s) ==
    leftpads[s] + (IF pad[s] \in {"alive", "termed"} THEN 1 ELSE 0)

\* C36: odr-padenc is terminated before odr-audioenc is spawned again, and a
\* thread whose odr-padenc does not terminate stops: at most one odr-padenc
\* per stream is alive at any time.
C36_OnePadPerStream == \A s \in StreamNames : PadsAlive(s) <= 1



(***************************************************************************)
(* DABStreams used by two threads: the watcher's setcfg and the operator's  *)
(* stop(); DABStreams holds no lock                                         *)
(***************************************************************************)
\* what the steps of setcfg and stop() leave alone
outsideRace == <<watcherVars, sockVars, mainpc, ackVars, groupVars, packetVars>>

\* list.insert(i, x) with i counted from 1: past the end, x is appended
InsertAt(l, i, x) ==
    LET at == IF i > Len(l) THEN Len(l) + 1 ELSE i
    IN  [k \in 1..(Len(l) + 1) |->
            IF k < at THEN l[k] ELSE IF k = at THEN x ELSE l[k - 1]]

\* DABStream.join by a caller: a thread that is not alive is not touched;
\* otherwise _running is cleared and odr-audioenc, if any, is sent SIGTERM
JoinBy(s, dead) ==
    IF dead \/ ~is_alive(s)
    THEN UNCHANGED <<trunning, audio>>
    ELSE /\ trunning' = [trunning EXCEPT ![s] = FALSE]
         /\ audio' = [audio EXCEPT ![s] = IF @ = "alive" THEN "termed" ELSE @]

\* the watcher: setcfg(stream, newcfg) up to t.join(); i, o and newcfg are
\* taken from the tuple the loop over self.streams stopped at
WatcherSetcfg(s, arg) ==
    /\ wpc = "idle"
    /\ ops < MaxOps
    /\ IndexOf(streams, s) /= 0
    /\ ops' = ops + 1
    /\ wpc' = "join"
    /\ wstream' = s
    /\ wi' = IndexOf(streams, s)
    /\ wout' = streams[IndexOf(streams, s)].out
    /\ wnewcfg' = IF arg = "default" THEN streamscfg[s]
                  ELSE Replacement(streams[IndexOf(streams, s)].cfg, arg,
                                   IF arg = "file" THEN "tts.wav"
                                   ELSE "data.fifo")
    /\ UNCHANGED <<streamscfg, streams, fifos, nextfifo, mpc, jpc, mstream,
                   mnewcfg, mi, tpc, trunning, streamcfg, failcounter, spawns,
                   audio, pad>>
    /\ UNCHANGED <<opc, oi, ostream, odead>>
    /\ UNCHANGED <<encVars, outsideRace>>

\* the watcher: t.join() of setcfg, up to super().join()
WatcherJoinBegin ==
    /\ wpc = "join"
    /\ JoinBy(wstream, FALSE)
    /\ wpc' = "joining"
    /\ UNCHANGED <<streamscfg, streams, fifos, nextfifo, mpc, jpc, mstream,
                   mnewcfg, mi, ops, tpc, streamcfg, failcounter, spawns, pad>>
    /\ UNCHANGED <<wstream, wi, wnewcfg, wout, opc, oi, ostream, odead>>
    /\ UNCHANGED <<encVars, outsideRace>>

\* the watcher: t.join() has returned; "del self.streams[i]" raises
\* IndexError when the list has no element i any more, and setcfg ends there
WatcherDel ==
    /\ wpc = "joining"
    /\ ~is_alive(wstream)
    /\ IF wi > Len(streams)
       THEN /\ wpc' = "raised"
            /\ UNCHANGED streams
       ELSE /\ wpc' = "sleep"
            /\ streams' = RemoveAt(streams, wi)
    /\ UNCHANGED <<streamscfg, fifos, nextfifo, mpc, jpc, mstream, mnewcfg,
                   mi, ops, tpc, trunning, streamcfg, failcounter, spawns,
                   audio, pad>>
    /\ UNCHANGED <<wstream, wi, wnewcfg, wout, opc, oi, ostream, odead>>
    /\ UNCHANGED <<encVars, outsideRace>>

\* the watcher: time.sleep(4) is over; _start_stream(stream, i, newcfg, o)
\* starts a thread and inserts its tuple at i (ok), or fails and inserts
\* nothing; a thread stop() is joining under that name is the old, dead one
WatcherStart(ok) ==
    /\ wpc = "sleep"
    /\ IF ok
       THEN /\ SetSupState(
                   NewThread(
                       [SupState EXCEPT !.streams =
                           InsertAt(@, wi, [name |-> wstream, cfg |-> wnewcfg,
                                            out |-> wout])],
                       wstream, wnewcfg))
            /\ odead' = (odead \/ (opc \in {"join", "joining"}
                                     /\ ostream = wstream))
       ELSE /\ SetSupState(SupState)
            /\ UNCHANGED odead
    /\ wpc' = "idle"
    /\ wstream' = "none"
    /\ wi' = 0
    /\ wnewcfg' = NoCfg
    /\ wout' = 0
    /\ UNCHANGED <<streamscfg, mpc, jpc, mstream, mnewcfg, mi, ops>>
    /\ UNCHANGED <<opc, oi, ostream>>
    /\ UNCHANGED outsideRace

\* stop(): the for loop over self.streams takes element k of the list as it
\* is now, remove_fifo(o) and t.join(); with no element k the loop is over
\* and "self.streams = []" ends stop()
StopAdvance(k) ==
    IF k <= Len(streams)
    THEN /\ oi' = k
         /\ ostream' = streams[k].name
         /\ fifos' = fifos \ {streams[k].out}
         /\ opc' = "join"
         /\ UNCHANGED streams
    ELSE /\ oi' = 0
         /\ ostream' = "none"
         /\ streams' = <<>>
         /\ opc' = "returned"
         /\ UNCHANGED fifos

\* the operator: stop() is called (main() at shutdown, restart())
OperatorStop ==
    /\ opc = "idle"
    /\ ops < MaxOps
    /\ DOMAIN streamscfg /= {}
    /\ ops' = ops + 1
    /\ StopAdvance(1)
    /\ odead' = FALSE
    /\ UNCHANGED <<streamscfg, nextfifo, mpc, jpc, mstream, mnewcfg, mi, tpc,
                   trunning, streamcfg, failcounter, spawns, audio, pad>>
    /\ UNCHANGED <<wpc, wstream, wi, wnewcfg, wout>>
    /\ UNCHANGED <<encVars, outsideRace>>

\* the operator: t.join() of stop(), up to super().join()
OperatorJoinBegin ==
    /\ opc = "join"
    /\ JoinBy(ostream, odead)
    /\ opc' = "joining"
    /\ UNCHANGED <<streamscfg, streams, fifos, nextfifo, mpc, jpc, mstream,
                   mnewcfg, mi, ops, tpc, streamcfg, failcounter, spawns, pad>>
    /\ UNCHANGED <<wpc, wstream, wi, wnewcfg, wout, oi, ostream, odead>>
    /\ UNCHANGED <<encVars, outsideRace>>

\* the operator: t.join() has returned; the loop of stop() goes on
OperatorJoined ==
    /\ opc = "joining"
    /\ odead \/ ~is_alive(ostream)
    /\ StopAdvance(oi + 1)
    /\ odead' = FALSE
    /\ UNCHANGED <<streamscfg, nextfifo, mpc, jpc, mstream, mnewcfg, mi, ops,
                   tpc, trunning, streamcfg, failcounter, spawns, audio, pad>>
    /\ UNCHANGED <<wpc, wstream, wi, wnewcfg, wout>>
    /\ UNCHANGED <<encVars, outsideRace>>

\* start() at startup, before the watcher and the operator use the streams
StartBefore(oks) ==
    /\ wpc = "idle"
    /\ opc = "idle"
    /\ Start(oks)

NextOverlap ==
    \/ \E oks \in [StreamNames -> BOOLEAN] : StartBefore(oks)
    \/ \E s \in StreamNames, arg \in SetcfgArgs : WatcherSetcfg(s, arg)
    \/ WatcherJoinBegin
    \/ WatcherDel
    \/ \E ok \in BOOLEAN : WatcherStart(ok)
    \/ OperatorStop
    \/ OperatorJoinBegin
    \/ OperatorJoined
    \/ \E s \in StreamNames : LoopTest(s)
    \/ \E s \in StreamNames : SpawnAudio(s)
    \/ \E s \in StreamNames : SpawnPad(s)
    \/ \E s \in StreamNames : AudioExits(s)
    \/ \E s \in StreamNames : PadExits(s)
    \/ \E s \in StreamNames, p \in BOOLEAN : Communicated(s, p)

SpecOverlap == InitStreams /\ [][NextOverlap]_vars

\* C39: once a stop() that overlapped with a setcfg of the watcher has
\* returned, the stream list is empty and no stream thread is running with
\* its encoder.
C39_StopLeavesNothing ==
    opc = "returned"
        => /\ streams = <<>>
           /\ \A s \in StreamNames : ~is_alive(s)


(***************************************************************************)
(* The queue between the intake and the scheduler, up to q.join()           *)
(***************************************************************************)
\* the server in operation, capsrv.stop() and q.join() of the shutdown; with
\* the data rebroadcast off the watcher never enters open(self.datafifo)
NextQueue ==
    \/ Tick
    \/ \E e \in Events : MainPost(e)
    \/ PutResume
    \/ ExpirySweep
    \/ DataRebroadcast
    \/ Promotion
    \/ GetEmpty
    \/ GetAlert
    \/ GetCancel
    \/ \E tts \in TTSOutcomes, ok \in BOOLEAN : EdgeAction(tts, ok)
    \/ StopCAP
    \/ QJoin

\* the server with the default announcement and the data rebroadcast off
InitQueue == Init /\ ~cfg.data /\ cfg.announcement = "alarm"

\* the queue from the start of the server to the return of q.join()
SpecQueue == InitQueue /\ [][NextQueue]_vars

\* C40: every event the scheduler has taken from the queue has been
\* acknowledged with task_done exactly once, whichever path handled it: the
\* unfinished tasks of the queue are the events still on it, and once the
\* scheduler has taken them all the q.join() of the shutdown can return.
C40_TaskDoneOncePerEvent ==
    /\ unfinished = Len(q)
    /\ (mainpc = "cap_stopped" /\ q = <<>>) => ENABLED QJoin

\* q.join() has returned after the scheduler took three events, among them
\* an Alert it keeps in a list and, last, a Cancel that matched nothing
C40_Witness ==
    /\ mainpc = "q_joined"
    /\ posts = 3
    /\ unfinished = 0
    /\ "Invalid CAP cancel request" \in logged
    /\ announcements /= <<>> \/ future_announcements /= <<>>

====
